---- MODULE Spec2Model ----
(***************************************************************************)
(* The batched, resumable corpus indexer of utils/rag_basic.py (BatchedRAG *)
(* and the module-level load_corpus / _get_rag_system) together with the   *)
(* host handlers of app.py that start builds (POST /build_brain, GET       *)
(* /reload_corpus).                                                        *)
(*                                                                         *)
(* The file system is modelled file by file.  A file is written in two     *)
(* steps, as open(path, 'w') (which truncates) followed by the dump, so a  *)
(* process that dies between the two leaves an unreadable file behind.     *)
(* The in-memory state lives in BatchedRAG instances; the module global    *)
(* _rag_system names the instance the readers see.                         *)
(***************************************************************************)
EXTENDS Integers, Sequences, FiniteSets, TLC

\* ------------------------------------------------------------------ bounds
\* Corpora of at most MaxLines lines.
MaxLines == 3
\* batch_size ranges over 1..MaxBatchSize (the code's default is 6000).
MaxBatchSize == 2
\* A text-bearing line yields MaxChunksPerLine chunks.
MaxChunksPerLine == 3
\* The size of an embedding sub-batch (the code's embedding_batch_size is 50).
embedding_batch_size == 2
\* Environment failures (kills, read errors, write errors, failed embedding
\* calls) injected in one behaviour.
MaxFaults == 2
\* Host threads that can run load_corpus.
MaxThreads == 2
\* Corpora of at most MaxHostLines lines where requests run concurrently.
MaxHostLines == 1
\* Corpora of at most MaxServeLines lines where the host reads during builds.
MaxServeLines == 2
\* retrieve is called with k up to MaxK.
MaxK == 1
\* Progress records of up to MaxTotalBatches batches where the status is read.
MaxTotalBatches == 50
\* chunk_text is applied to texts of up to MaxPieces pieces (words and single
\* whitespace characters), with max_words up to MaxMaxWords.
MaxPieces == 7
MaxMaxWords == 3
\* extract_text_from_json_line is applied to JSON values nested up to MaxDepth
\* deep, with up to MaxItems items in a dict or a list.
MaxDepth == 2
MaxItems == 2
\* process_batch_lines is applied to files of up to MaxFileLines lines.
MaxFileLines == 3
\* search is applied to indexes of up to MaxIndex chunks.
MaxIndex == 3
MaxStoreLines == 2

\* ------------------------------------------------------------------- corpus
\* A corpus line is blank (skipped by line.strip()) or yields n chunks; a line
\* of malformed JSON or of too little text yields none.
Lines ==
    { [blank |-> TRUE, n |-> 0], [blank |-> FALSE, n |-> 0],
      [blank |-> FALSE, n |-> MaxChunksPerLine] }

Corpora == UNION { [1..n -> Lines] : n \in 0..MaxLines }

NotBlank(l) == ~l.blank

\* The lines that count: both passes skip the blank ones.
NonBlank(c) == SelectSeq(c, NotBlank)

count_total_lines(c) == Len(NonBlank(c))

\* Mutant of Ceil: the integer quotient, which drops a last short batch.
FloorDiv(n, b) == n \div b

\* math.ceil(total_lines / self.batch_size)
Ceil(n, b) == (n + b - 1) \div b

\* The chunks of the line at 0-based position p of the batch b, ids from id0.
LineChunks(p, n, b, id0) ==
    [k \in 1..n |-> [id |-> id0 + k - 1, text |-> <<p, k>>,
                     source |-> p + 1, batch |-> b]]

RECURSIVE BatchLines(_, _, _, _, _)
BatchLines(nb, p, end, b, id) ==
    IF p >= end \/ p >= Len(nb) THEN <<>>
    ELSE LET lc == LineChunks(p, nb[p + 1].n, b, id)
         IN  lc \o BatchLines(nb, p + 1, end, b, id + Len(lc))

\* process_batch_lines: the lines start_line <= current_line < end_line.
process_batch_lines(c, bs, batch_num, chunk_id) ==
    BatchLines(NonBlank(c), batch_num * bs, batch_num * bs + bs,
               batch_num, chunk_id)

\* ---------------------------------------------------------------- embeddings
\* The embedding service maps a text to a vector the text determines; a failed
\* single call yields the zero vector.
Embed(text) == <<text[1], text[2], 1>>

ZeroVector == <<0, 0, 0>>

SubSeqFrom(s, i, j) == IF i > j THEN <<>> ELSE SubSeq(s, i, j)

Min(a, b) == IF a < b THEN a ELSE b

\* --------------------------------------------------------------------- text
\* A string is kept as the sequence of its pieces: 0 is one whitespace
\* character, n > 0 is a word (a maximal run of n characters that are not
\* whitespace) and -n is a word of n characters that is a field label "[...]".
\* No two words are adjacent.
IsWord(piece) == piece # 0

PieceLen(piece) ==
    IF piece = 0 THEN 1 ELSE IF piece < 0 THEN 0 - piece ELSE piece

\* len(s[i:j]), the pieces i+1..j.
RECURSIVE LenOfPieces(_, _, _)
LenOfPieces(s, i, j) ==
    IF j <= i THEN 0
    ELSE IF j = i + 1 THEN PieceLen(s[j])
    ELSE LenOfPieces(s, i, (i + j) \div 2) + LenOfPieces(s, (i + j) \div 2, j)

\* len(s)
StrLen(s) == LenOfPieces(s, 0, Len(s))

RECURSIVE FirstWord(_, _)
FirstWord(s, i) ==
    IF i > Len(s) \/ IsWord(s[i]) THEN i ELSE FirstWord(s, i + 1)

RECURSIVE LastWord(_, _)
LastWord(s, i) == IF i < 1 \/ IsWord(s[i]) THEN i ELSE LastWord(s, i - 1)

\* s.strip()
strip(s) == SubSeqFrom(s, FirstWord(s, 1), LastWord(s, Len(s)))

\* s.split()
split(s) == SelectSeq(s, IsWord)

\* " ".join(words)
join(words) ==
    [i \in 1..(2 * Len(words) - 1) |->
        IF i % 2 = 1 THEN words[(i + 1) \div 2] ELSE 0]

\* Mutant of WordRun: the run takes one word more, which the next run repeats.
WordRunOverlap(words, i, max_words) ==
    SubSeqFrom(words, i + 1, Min(i + max_words + 1, Len(words)))

\* words[i:i + max_words]
WordRun(words, i, max_words) ==
    SubSeqFrom(words, i + 1, Min(i + max_words, Len(words)))

\* Line 93: chunks of at most 50 characters are skipped.
LongEnough(chunk) == StrLen(strip(chunk)) > 50

\* The chunks of range(0, len(words), max_words), before any is skipped.
RunsOf(words, max_words) ==
    [r \in 1..((Len(words) + max_words - 1) \div max_words) |->
        join(WordRun(words, (r - 1) * max_words, max_words))]

\* The chunks with strip() applied.
Stripped(chunks) == [x \in 1..Len(chunks) |-> strip(chunks[x])]

\* Mutant of chunk_text: no chunk is skipped.
chunk_text_keep_all(text, max_words) ==
    Stripped(RunsOf(split(text), max_words))

\* chunk_text(text, max_words)
chunk_text(text, max_words) ==
    Stripped(SelectSeq(RunsOf(split(text), max_words), LongEnough))

\* " ".join(strings)
RECURSIVE join_strings(_)
join_strings(strings) ==
    IF strings = <<>> THEN <<>>
    ELSE IF Len(strings) = 1 THEN strings[1]
    ELSE strings[1] \o <<0>> \o join_strings(Tail(strings))

\* --------------------------------------------------------------------- JSON
\* A JSON value is a string (s), a dict or a list (items, each a key and a
\* value; the key of a list item is "") or anything else ("num").
Str(s) == [t |-> "str", s |-> s, items |-> <<>>]
Num == [t |-> "num", s |-> <<>>, items |-> <<>>]
Dict(items) == [t |-> "dict", s |-> <<>>, items |-> items]
List(values) ==
    [t |-> "list", s |-> <<>>,
     items |-> [i \in 1..Len(values) |-> [key |-> "", value |-> values[i]]]]

text_fields ==
    {"text", "content", "message", "body", "description", "title",
     "question", "answer"}

\* key.lower(), for the keys of the model's records.
Lower(key) == IF key = "Content" THEN "content" ELSE key

\* len(key), for the keys of the model's records.
KeyLen(key) ==
    CASE key = "text" -> 4
      [] key = "content" -> 7
      [] key = "Content" -> 7
      [] key = "meta" -> 4

IsContainer(value) == value.t \in {"dict", "list"}

\* Lines 106 and 114: a string of more than 20 characters after strip().
LongString(value) == value.t = "str" /\ StrLen(strip(value.s)) > 20

\* Line 107: the label "[<prefix><key>] ", none for a top-level "text"; the
\* prefix is kept as its length.
Context(prefix, key) ==
    IF prefix > 0 \/ key # "text"
    THEN <<0 - (prefix + KeyLen(key) + 2), 0>> ELSE <<>>

\* extract_from_obj(obj, prefix): the strings it appends to texts, in order.
RECURSIVE extract_from_obj(_, _)
RECURSIVE ExtractFromItems(_, _, _)
ExtractFromItems(obj, i, prefix) ==
    IF i > Len(obj.items) THEN <<>>
    ELSE (IF obj.t = "dict"
          THEN IF Lower(obj.items[i].key) \in text_fields
                  /\ LongString(obj.items[i].value)
               THEN <<Context(prefix, obj.items[i].key)
                        \o strip(obj.items[i].value.s)>>
               ELSE IF IsContainer(obj.items[i].value)
               THEN extract_from_obj(obj.items[i].value,
                                     prefix + KeyLen(obj.items[i].key) + 1)
               ELSE <<>>
          ELSE IF IsContainer(obj.items[i].value)
               THEN extract_from_obj(obj.items[i].value, prefix + 4)
               ELSE IF LongString(obj.items[i].value)
               THEN <<strip(obj.items[i].value.s)>>
               ELSE <<>>)
         \o ExtractFromItems(obj, i + 1, prefix)

extract_from_obj(obj, prefix) ==
    IF IsContainer(obj) THEN ExtractFromItems(obj, 1, prefix) ELSE <<>>

\* extract_text_from_json_line(json_obj)
extract_text_from_json_line(json_obj) ==
    join_strings(extract_from_obj(json_obj, 0))

\* ---------------------------------------------------------------- raw lines
\* A line of the corpus file as it is read: blank, not JSON, or a JSON value.
BlankLine == [kind |-> "blank", obj |-> Num]
MalformedLine == [kind |-> "malformed", obj |-> Num]
JsonLine(obj) == [kind |-> "json", obj |-> obj]

\* Lines 148-153 with line 166: the texts of the chunks a line yields; none
\* when json.loads raises JSONDecodeError or the extracted text has at most
\* 50 characters.
line_chunk_texts(line) ==
    IF line.kind = "malformed" THEN <<>>
    ELSE IF StrLen(strip(extract_text_from_json_line(line.obj))) > 50
    THEN chunk_text(extract_text_from_json_line(line.obj), 400)
    ELSE <<>>

\* Lines 155-164: the chunks of the line counted as current_line.
ChunksOfLine(texts, current_line, batch_num, chunk_id) ==
    [k \in 1..Len(texts) |->
        [id |-> chunk_id + k - 1, text |-> texts[k],
         source |-> current_line + 1, batch |-> batch_num]]

\* Mutant of FileLoop: a line that is not JSON is not counted.
RECURSIVE FileLoopUncounted(_, _, _, _, _, _, _)
FileLoopUncounted(file, i, current_line, start_line, end_line, batch_num, chunk_id) ==
    IF i > Len(file) THEN <<>>
    ELSE IF file[i].kind = "blank"
         \/ (file[i].kind = "malformed" /\ current_line >= start_line)
    THEN FileLoopUncounted(file, i + 1, current_line, start_line, end_line,
                           batch_num, chunk_id)
    ELSE IF current_line < start_line
    THEN FileLoopUncounted(file, i + 1, current_line + 1, start_line,
                           end_line, batch_num, chunk_id)
    ELSE IF current_line >= end_line THEN <<>>
    ELSE ChunksOfLine(line_chunk_texts(file[i]), current_line, batch_num,
                      chunk_id)
         \o FileLoopUncounted(file, i + 1, current_line + 1, start_line,
                              end_line, batch_num,
                              chunk_id + Len(line_chunk_texts(file[i])))

\* Lines 134-169: the loop over the lines of the file, from line i on.
RECURSIVE FileLoop(_, _, _, _, _, _, _)
FileLoop(file, i, current_line, start_line, end_line, batch_num, chunk_id) ==
    IF i > Len(file) THEN <<>>
    ELSE IF file[i].kind = "blank"
    THEN FileLoop(file, i + 1, current_line, start_line, end_line,
                  batch_num, chunk_id)
    ELSE IF current_line < start_line
    THEN FileLoop(file, i + 1, current_line + 1, start_line, end_line,
                  batch_num, chunk_id)
    ELSE IF current_line >= end_line THEN <<>>
    ELSE ChunksOfLine(line_chunk_texts(file[i]), current_line, batch_num,
                      chunk_id)
         \o FileLoop(file, i + 1, current_line + 1, start_line, end_line,
                     batch_num, chunk_id + Len(line_chunk_texts(file[i])))

\* Mutant of process_file_batch: the range takes the line at end_line too.
process_file_batch_inclusive(file, bs, batch_num, chunk_id) ==
    FileLoop(file, 1, 0, batch_num * bs, batch_num * bs + bs + 1, batch_num,
             chunk_id)

\* process_batch_lines on the lines of the file as they are read.
process_file_batch(file, bs, batch_num, chunk_id) ==
    FileLoop(file, 1, 0, batch_num * bs, batch_num * bs + bs, batch_num,
             chunk_id)

\* ------------------------------------------------------------------- floats
\* Python's float is the IEEE double: a number m * 2^(e - 52) with a mantissa
\* m of MantissaLen bits, kept here as the bit sequence (first bit 1) and the
\* exponent e of its first bit.  Every operation rounds to nearest, ties to
\* the even mantissa.
MantissaLen == 53

\* The first k >= 1 bits of n / d for n < 2d, and twice the remainder (the
\* long division, the first half of the bits before the second).
RECURSIVE DivBits(_, _, _)
DivBits(n, d, k) ==
    IF k = 1
    THEN [bits |-> <<IF n >= d THEN 1 ELSE 0>>,
          rem |-> (IF n >= d THEN n - d ELSE n) * 2]
    ELSE LET a == DivBits(n, d, k \div 2)
             b == DivBits(a.rem, d, k - k \div 2)
         IN  [bits |-> a.bits \o b.bits, rem |-> b.rem]

\* n / d = n' / d' * 2^e with d' <= n' < 2d'.
RECURSIVE Normalise(_, _, _)
Normalise(n, d, e) ==
    IF n >= 2 * d THEN Normalise(n, 2 * d, e + 1)
    ELSE IF n < d THEN Normalise(2 * n, d, e - 1)
    ELSE [n |-> n, d |-> d, e |-> e]

\* The bit sequence plus one: the last 0 becomes 1 and the 1s after it 0.
Incr(bits) ==
    IF \A i \in 1..Len(bits) : bits[i] = 1
    THEN <<1>> \o [i \in 1..Len(bits) |-> 0]
    ELSE LET z == CHOOSE i \in 1..Len(bits) :
                     bits[i] = 0 /\ \A j \in (i + 1)..Len(bits) : bits[j] = 1
         IN  [i \in 1..Len(bits) |->
                 IF i < z THEN bits[i] ELSE IF i = z THEN 1 ELSE 0]

RoundedUp(bits, e, up) ==
    IF ~up THEN [m |-> bits, e |-> e]
    ELSE IF Len(Incr(bits)) > Len(bits)
         THEN [m |-> SubSeq(Incr(bits), 1, Len(bits)), e |-> e + 1]
         ELSE [m |-> Incr(bits), e |-> e]

\* The float c / t of two positive integers.
FloatDiv(c, t) ==
    LET nz == Normalise(c, t, 0)
        r == DivBits(nz.n, nz.d, MantissaLen)
    IN  RoundedUp(r.bits, nz.e,
                  r.rem > nz.d \/ (r.rem = nz.d /\ r.bits[MantissaLen] = 1))

RECURSIVE NatBits(_)
NatBits(n) == IF n = 0 THEN <<>> ELSE NatBits(n \div 2) \o <<n % 2>>

RECURSIVE BitsNat(_)
BitsNat(bits) ==
    IF bits = <<>> THEN 0
    ELSE 2 * BitsNat(SubSeq(bits, 1, Len(bits) - 1)) + bits[Len(bits)]

\* The bits of n, with zeros in front up to the length len.
Padded(n, len) == [i \in 1..(len - Len(NatBits(n))) |-> 0] \o NatBits(n)

\* The exact value of bits * m + carry for a small positive integer m, worked
\* out 12 bits at a time from the low end.
RECURSIVE MulBits(_, _, _)
MulBits(bits, m, carry) ==
    IF Len(bits) <= 12 THEN NatBits(BitsNat(bits) * m + carry)
    ELSE LET v == BitsNat(SubSeq(bits, Len(bits) - 11, Len(bits))) * m + carry
         IN  MulBits(SubSeq(bits, 1, Len(bits) - 12), m, v \div 4096)
             \o Padded(v % 4096, 12)

\* The float x * m for a float x and an integer m >= 1.
FloatMul(x, m) ==
    LET p == MulBits(x.m, m, 0)
        kept == SubSeq(p, 1, MantissaLen)
        dropped == SubSeqFrom(p, MantissaLen + 1, Len(p))
    IN  RoundedUp(kept, x.e + (Len(p) - MantissaLen),
                  /\ dropped # <<>>
                  /\ dropped[1] = 1
                  /\ \/ kept[MantissaLen] = 1
                     \/ \E q \in 2..Len(dropped) : dropped[q] = 1)

\* int(x) for a float x > 0: the integer part.
FloatInt(x) == IF x.e < 0 THEN 0 ELSE BitsNat(SubSeq(x.m, 1, x.e + 1))

\* int((completed_batches / total_batches) * 100), for total_batches > 0.
Percentage(completed, total) ==
    IF completed = 0 THEN 0
    ELSE FloatInt(FloatMul(FloatDiv(completed, total), 100))

\* -------------------------------------------------------------------- files
AbsentFile == [st |-> "absent", data |-> <<>>]
PartialFile == [st |-> "partial", data |-> <<>>]
OkFile(d) == [st |-> "ok", data |-> d]

DefaultProgress ==
    [completed_batches |-> 0, total_batches |-> 0,
     total_chunks_processed |-> 0, total_embeddings_created |-> 0]

BatchIds == 0..(MaxLines - 1)

\* Python's None, for the global _rag_system; instances are numbered from 1.
None == 0

Threads == 1..MaxThreads

\* One instance per thread that may hold one, and one for the global.
Inst == 1..(MaxThreads + 1)

BlankInst ==
    [batch_progress |-> DefaultProgress, chunks |-> <<>>, embeddings |-> <<>>]

IdleThread ==
    [pc |-> "idle", route |-> "none", self |-> None, batch_num |-> 0,
     total_batches |-> 0, batch_chunks |-> <<>>, i |-> 0,
     sub_batch_count |-> 0, created |-> 0, sub_embeddings |-> <<>>,
     chunk_indices |-> <<>>, all_embeddings |-> <<>>, ret |-> "none",
     read_failed |-> FALSE]

VARIABLES
    corpus,           \* the corpus file: a sequence of Lines
    batch_size,       \* BatchedRAG.batch_size
    progress_file,    \* rag_data/batch_progress.json
    batch_files,      \* rag_data/batches/batch_<b>.json, by batch
    sub_files,        \* embeddings_<b>_<k>.pkl and indices_<b>_<k>.json, by batch
    rag_system,       \* the module global _rag_system: an instance or None
    rag,              \* the BatchedRAG instances
    rag_building,     \* app.py's _rag_building
    rag_build_error,  \* app.py's _rag_build_error (whether a message is stored)
    th,               \* the threads running load_corpus, with their locals
    faults,           \* environment failures injected so far
    api_key,          \* whether OPENAI_API_KEY is set
    path_exists,      \* whether the corpus file exists
    reply,            \* the answer to the last read request
    call,             \* a call of one of the text functions, with its result
    hist              \* history of the run, read by the properties only

vars ==
    <<corpus, batch_size, progress_file, batch_files, sub_files, rag_system,
      rag, rag_building, rag_build_error, th, faults, api_key, path_exists,
      reply, call, hist>>

disk == <<progress_file, batch_files, sub_files>>
host == <<rag_building, rag_build_error>>
fixed == <<corpus, batch_size>>
env == <<api_key, path_exists>>

\* ----------------------------------------------------------- reading disk
\* The embedding sub-batch files of one batch, as load_all_batches reads them:
\* it stops at the first embeddings file that does not exist, and a truncated
\* file or a missing indices file raises.
SubRaises(sf) ==
    \E k \in 1..Len(sf) : sf[k].emb.st = "partial" \/ sf[k].idx.st # "ok"

RECURSIVE SubEmbeddings(_)
SubEmbeddings(sf) ==
    IF sf = <<>> THEN <<>> ELSE Head(sf).emb.data \o SubEmbeddings(Tail(sf))

RECURSIVE SubIndices(_)
SubIndices(sf) ==
    IF sf = <<>> THEN <<>> ELSE Head(sf).idx.data \o SubIndices(Tail(sf))

RECURSIVE AllChunks(_, _)
AllChunks(b, completed) ==
    IF b >= completed THEN <<>>
    ELSE (IF batch_files[b].st = "ok" THEN batch_files[b].data ELSE <<>>)
         \o AllChunks(b + 1, completed)

RECURSIVE AllEmbeddings(_, _)
AllEmbeddings(b, completed) ==
    IF b >= completed THEN <<>>
    ELSE (IF batch_files[b].st = "ok" THEN SubEmbeddings(sub_files[b])
          ELSE <<>>)
         \o AllEmbeddings(b + 1, completed)

LoadRaises(completed) ==
    \E b \in 0..(completed - 1) :
        \/ batch_files[b].st = "partial"
        \/ batch_files[b].st = "ok" /\ SubRaises(sub_files[b])

\* load_all_batches on the files as they are now, for an instance whose
\* in-memory progress counts `completed` batches.
load_all_batches(completed) ==
    [raised |-> LoadRaises(completed),
     chunks |-> AllChunks(0, completed),
     embeddings |-> AllEmbeddings(0, completed)]

\* The sub-batch files a batch of n chunks needs.
SubBatchesNeeded(n) == (n + embedding_batch_size - 1) \div embedding_batch_size

\* Batch b's chunk file exists while an embeddings file or an indices file of
\* it is missing.
HasGap(b) ==
    /\ batch_files[b].st = "ok"
    /\ \/ Len(sub_files[b]) < SubBatchesNeeded(Len(batch_files[b].data))
       \/ \E k \in 1..Len(sub_files[b]) : sub_files[b][k].idx.st = "absent"

\* The first such batch among those load_all_batches reads, or `completed`.
FirstGap(completed) ==
    IF \E b \in 0..(completed - 1) : HasGap(b)
    THEN CHOOSE b \in 0..(completed - 1) :
            HasGap(b) /\ \A c \in 0..(b - 1) : ~HasGap(c)
    ELSE completed

\* Mutant of load_batch_progress: the record read counts the batch in progress
\* as done, so a resumed build starts one batch late.
load_batch_progress_ahead ==
    IF progress_file.st = "ok"
    THEN [progress_file.data EXCEPT
            !.completed_batches =
               IF @ < progress_file.data.total_batches THEN @ + 1 ELSE @]
    ELSE DefaultProgress

\* Mutant of load_batch_progress: the record read is one batch behind, so a
\* resumed build does the last completed batch again.
load_batch_progress_behind ==
    IF progress_file.st = "ok"
    THEN [progress_file.data EXCEPT
            !.completed_batches = IF @ > 0 THEN @ - 1 ELSE @]
    ELSE DefaultProgress

\* load_batch_progress: the file's record, the default when there is no file;
\* json.load raises on a truncated file.
load_batch_progress ==
    IF progress_file.st = "ok" THEN progress_file.data ELSE DefaultProgress

\* BatchedRAG(): the API key is required; then load_batch_progress and
\* load_existing_data.
ConstructRaises ==
    \/ ~api_key
    \/ progress_file.st = "partial"
    \/ /\ load_batch_progress.completed_batches > 0
       /\ LoadRaises(load_batch_progress.completed_batches)

Constructed ==
    LET bp == load_batch_progress
        la == load_all_batches(bp.completed_batches)
    IN  [batch_progress |-> bp,
         chunks |-> IF bp.completed_batches > 0 THEN la.chunks ELSE <<>>,
         embeddings |-> IF bp.completed_batches > 0 THEN la.embeddings ELSE <<>>]

\* An instance no reference holds is garbage: it is reset, which keeps the
\* state canonical.
Collect(r, sys, thr) ==
    [i \in Inst |->
        IF i = sys \/ \E t \in Threads : thr[t].self = i THEN r[i]
        ELSE BlankInst]

FreshInst(sys, thr) ==
    CHOOSE i \in Inst :
        /\ i # sys /\ \A t \in Threads : thr[t].self # i
        /\ \A j \in Inst :
              (j # sys /\ \A t \in Threads : thr[t].self # j) => i <= j

\* _get_rag_system(): the global, built from the files first when it is None
\* (and left None when BatchedRAG() raises).
GetRagSystem ==
    IF rag_system # None THEN [sys |-> rag_system, rag |-> rag]
    ELSE IF ConstructRaises THEN [sys |-> None, rag |-> rag]
    ELSE LET n == FreshInst(None, th)
         IN  [sys |-> n, rag |-> [rag EXCEPT ![n] = Constructed]]

\* Mutant of is_ready: ready only once every batch is counted complete.
is_ready_complete(g) ==
    /\ g.sys # None
    /\ Len(g.rag[g.sys].chunks) > 0
    /\ g.rag[g.sys].batch_progress.completed_batches
          >= g.rag[g.sys].batch_progress.total_batches

\* is_ready(), on the outcome of its _get_rag_system() call.
is_ready(g) == g.sys # None /\ Len(g.rag[g.sys].chunks) > 0

\* ------------------------------------------------------------------ history
InitHist ==
    [runs |-> [b \in BatchIds |-> 0],
     counted |-> [b \in BatchIds |-> 0],
     produced |-> [b \in BatchIds |-> <<>>],
     interrupted |-> 0 - 1,
     kills |-> 0,
     load_gap |-> 0 - 1,
     load_raised |-> FALSE,
     load_seen |-> {},
     failed |-> {},
     failure |-> FALSE,
     stopped |-> "none",
     missing |-> FALSE]

Cap2(n) == IF n >= 2 THEN 2 ELSE n + 1

\* What a run of load_all_batches found, for the properties.
NoteLoad(h, completed) ==
    [h EXCEPT !.load_gap = IF FirstGap(completed) < completed
                           THEN FirstGap(completed) ELSE 0 - 1,
              !.load_raised = LoadRaises(completed),
              !.load_seen = IF LoadRaises(completed) THEN {}
                            ELSE { AllChunks(0, completed)[p].batch :
                                     p \in 1..Len(AllChunks(0, completed)) }]

\* An except clause of the build caught an error and printed it.
\* A failure ends the build started over the given route: the loop is left
\* (or never entered) with batches still to do.
NoteStop(h, route) == [h EXCEPT !.failure = TRUE, !.stopped = route]

\* BatchedRAG() runs load_all_batches when the progress file counts batches.
NoteConstruct(h) ==
    IF progress_file.st # "partial" /\ load_batch_progress.completed_batches > 0
    THEN NoteLoad(h, load_batch_progress.completed_batches)
    ELSE h

\* ---------------------------------------------------------------- initially
\* No read request was answered yet.
NoReply ==
    [op |-> "none", k |-> 0, filter |-> "", ready |-> FALSE, results |-> <<>>,
     unfiltered |-> <<>>, raised |-> FALSE, status |-> "none",
     percentage |-> 0, chunks_processed |-> 0, embeddings_created |-> 0]

\* The process has imported rag_basic on an empty rag_data directory: the
\* auto-initialisation has built the first instance from no files, unless the
\* API key is missing.
\* No text function has been called.
NoCall == [fn |-> "none"]

InitCommon ==
    /\ progress_file = [AbsentFile EXCEPT !.data = DefaultProgress]
    /\ batch_files = [b \in BatchIds |-> AbsentFile]
    /\ sub_files = [b \in BatchIds |-> <<>>]
    /\ rag_system = IF api_key THEN 1 ELSE None
    /\ rag = [i \in Inst |-> BlankInst]
    /\ reply = NoReply
    /\ rag_building = FALSE
    /\ rag_build_error = FALSE
    /\ th = [t \in Threads |-> IdleThread]
    /\ faults = 0
    /\ hist = InitHist

Init ==
    /\ corpus \in Corpora
    /\ batch_size \in 1..MaxBatchSize
    /\ api_key = TRUE
    /\ path_exists = TRUE
    /\ call = NoCall
    /\ InitCommon

\* ------------------------------------------------------------ host handlers
Set(t, f) == [th EXCEPT ![t] = f]

\* POST /build_brain: refused while _rag_building or is_ready(); otherwise the
\* handler starts build_brain_background on a new thread.  is_ready() calls
\* _get_rag_system(), which builds the global when it is None.
build_brain(t) ==
    /\ th[t].pc = "idle"
    /\ ~rag_building
    /\ LET g == GetRagSystem
       IN  /\ rag_system' = g.sys
           /\ rag' = g.rag
           /\ hist' = IF rag_system = None /\ g.sys # None
                      THEN NoteConstruct(hist) ELSE hist
           /\ th' = IF is_ready(g) THEN th
                    ELSE Set(t, [IdleThread EXCEPT !.pc = "bg_start",
                                                   !.route = "bg"])
    /\ rag_system = None \/ ~is_ready(GetRagSystem)
    /\ UNCHANGED <<fixed, env, call, reply, disk, host, faults>>

\* build_brain_background: _rag_building = True; _rag_build_error = None.
BgStart(t) ==
    /\ th[t].pc = "bg_start"
    /\ rag_building' = TRUE
    /\ rag_build_error' = FALSE
    /\ th' = Set(t, [th[t] EXCEPT !.pc = "lc_construct"])
    /\ UNCHANGED <<fixed, env, call, reply, disk, rag_system, rag, faults, hist>>

\* GET /reload_corpus: the handler calls load_corpus itself.
reload_corpus(t) ==
    /\ th[t].pc = "idle"
    /\ th' = Set(t, [IdleThread EXCEPT !.pc = "lc_construct",
                                       !.route = "reload"])
    /\ UNCHANGED <<fixed, env, call, reply, disk, host, rag_system, rag, faults, hist>>

\* load_corpus: _rag_system = BatchedRAG().  A constructor that raises takes
\* load_corpus to its except clause.
LcConstruct(t) ==
    /\ th[t].pc = "lc_construct"
    /\ IF ConstructRaises
       THEN /\ th' = Set(t, [th[t] EXCEPT !.pc = "lc_except"])
            /\ hist' = [hist EXCEPT !.missing = ~api_key \/ ~path_exists]
            /\ UNCHANGED <<rag_system, rag>>
       ELSE LET n == FreshInst(rag_system, th)
            IN  /\ rag_system' = n
                /\ th' = Set(t, [th[t] EXCEPT !.pc = "lc_build"])
                /\ rag' = Collect([rag EXCEPT ![n] = Constructed], n, th')
                /\ hist' = [NoteConstruct(hist) EXCEPT
                              !.failure = FALSE,
                              !.stopped = "none",
                              !.missing = ~api_key \/ ~path_exists]
    /\ UNCHANGED <<fixed, env, call, reply, disk, host, faults>>

\* load_corpus: _rag_system.build_index_in_batches(path) reads the global
\* again; on None the attribute access raises.
LcBuild(t) ==
    /\ th[t].pc = "lc_build"
    /\ th' = Set(t, IF rag_system = None
                    THEN [th[t] EXCEPT !.pc = "lc_except"]
                    ELSE [th[t] EXCEPT !.pc = "bib_count", !.self = rag_system])
    /\ UNCHANGED <<fixed, env, call, reply, disk, host, rag_system, rag, faults, hist>>

\* load_corpus's except clause: _rag_system = None; raise.  The reload handler
\* answers 500; build_brain_background goes to its own except clause.
LcExcept(t) ==
    /\ th[t].pc = "lc_except"
    /\ rag_system' = None
    /\ th' = Set(t, IF th[t].route = "bg"
                    THEN [IdleThread EXCEPT !.pc = "bg_except", !.route = "bg"]
                    ELSE IdleThread)
    /\ rag' = Collect(rag, None, th')
    /\ UNCHANGED <<fixed, env, call, reply, disk, host, faults, hist>>

\* build_brain_background's except clause.
BgExcept(t) ==
    /\ th[t].pc = "bg_except"
    /\ rag_building' = FALSE
    /\ rag_build_error' = TRUE
    /\ th' = Set(t, IdleThread)
    /\ UNCHANGED <<fixed, env, call, reply, disk, rag_system, rag, faults, hist>>

\* build_brain_background after load_corpus returned: _rag_building = False.
BgDone(t) ==
    /\ th[t].pc = "bg_done"
    /\ rag_building' = FALSE
    /\ th' = Set(t, IdleThread)
    /\ rag' = Collect(rag, rag_system, th')
    /\ UNCHANGED <<fixed, env, call, reply, disk, rag_system, rag_build_error, faults, hist>>

\* --------------------------------------------------- build_index_in_batches
Me(t) == rag[th[t].self]

SetProgress(t, bp) == [rag EXCEPT ![th[t].self].batch_progress = bp]

\* Mutant of BibCount: a resumed build starts again at batch 0.
BibCountFromZero(t) ==
    /\ th[t].pc = "bib_count"
    /\ IF Me(t).batch_progress.total_batches = 0
       THEN /\ rag' = SetProgress(t,
                        [Me(t).batch_progress EXCEPT
                           !.total_batches =
                              Ceil(IF path_exists THEN count_total_lines(corpus)
                                   ELSE 0, batch_size)])
            /\ th' = Set(t, [th[t] EXCEPT !.pc = "save_open", !.ret = "range"])
            /\ hist' = IF path_exists THEN hist
                       ELSE NoteStop(hist, th[t].route)
       ELSE /\ th' = Set(t, [th[t] EXCEPT
                               !.pc = "loop",
                               !.batch_num = 0,
                               !.total_batches = Me(t).batch_progress.total_batches])
            /\ UNCHANGED <<rag, hist>>
    /\ UNCHANGED <<fixed, env, call, reply, disk, host, rag_system, faults>>

\* Lines 341-352.  With total_batches == 0 the lines are counted (0 when the
\* file cannot be opened: count_total_lines catches the error), the count is
\* stored and the progress saved; otherwise the loop's range is read.
BibCount(t) ==
    /\ th[t].pc = "bib_count"
    /\ IF Me(t).batch_progress.total_batches = 0
       THEN /\ rag' = SetProgress(t,
                        [Me(t).batch_progress EXCEPT
                           !.total_batches =
                              Ceil(IF path_exists THEN count_total_lines(corpus)
                                   ELSE 0, batch_size)])
            /\ th' = Set(t, [th[t] EXCEPT !.pc = "save_open", !.ret = "range"])
            /\ hist' = IF path_exists THEN hist
                       ELSE NoteStop(hist, th[t].route)
       ELSE /\ th' = Set(t, [th[t] EXCEPT
                               !.pc = "loop",
                               !.batch_num = Me(t).batch_progress.completed_batches,
                               !.total_batches = Me(t).batch_progress.total_batches])
            /\ UNCHANGED <<rag, hist>>
    /\ UNCHANGED <<fixed, env, call, reply, disk, host, rag_system, faults>>

\* save_batch_progress: open(progress_file, 'w') truncates the file.
SaveOpen(t) ==
    /\ th[t].pc = "save_open"
    /\ progress_file' = [PartialFile EXCEPT !.data = DefaultProgress]
    /\ th' = Set(t, [th[t] EXCEPT !.pc = "save_dump"])
    /\ UNCHANGED <<fixed, env, call, reply, batch_files, sub_files, host, rag_system, rag,
                   faults, hist>>

\* After a batch's save the loop goes to the next batch (and drops the batch's
\* chunks); after the first save the loop's range is read.
AfterSave(t) ==
    IF th[t].ret = "next"
    THEN [IdleThread EXCEPT !.pc = "loop", !.route = th[t].route,
                            !.self = th[t].self,
                            !.batch_num = th[t].batch_num + 1,
                            !.total_batches = th[t].total_batches]
    ELSE [th[t] EXCEPT !.pc = "range", !.ret = "none"]

\* save_batch_progress: json.dump of the instance's batch_progress.
SaveDump(t) ==
    /\ th[t].pc = "save_dump"
    /\ progress_file' = OkFile(Me(t).batch_progress)
    /\ th' = Set(t, AfterSave(t))
    /\ hist' = IF th[t].ret = "next"
               THEN [hist EXCEPT
                       !.counted[th[t].batch_num] = Cap2(@),
                       !.produced[th[t].batch_num] = th[t].batch_chunks]
               ELSE hist
    /\ UNCHANGED <<fixed, env, call, reply, batch_files, sub_files, host, rag_system, rag, faults>>

\* Lines 351-352: start_batch and total_batches.
Range(t) ==
    /\ th[t].pc = "range"
    /\ th' = Set(t, [th[t] EXCEPT
                       !.pc = "loop",
                       !.batch_num = Me(t).batch_progress.completed_batches,
                       !.total_batches = Me(t).batch_progress.total_batches])
    /\ UNCHANGED <<fixed, env, call, reply, disk, host, rag_system, rag, faults, hist>>

\* The for loop's head and line 359: past the range the loop ends; otherwise
\* process_batch_lines reads the batch, numbering its chunks from the
\* instance's total_chunks_processed, and returns [] from its except clause
\* when the file cannot be opened.
Loop(t) ==
    /\ th[t].pc = "loop"
    /\ IF th[t].batch_num >= th[t].total_batches
       THEN /\ th' = Set(t, [th[t] EXCEPT !.pc = "load_all"])
            /\ UNCHANGED hist
       ELSE LET cs == IF path_exists
                      THEN process_batch_lines(corpus, batch_size,
                              th[t].batch_num,
                              Me(t).batch_progress.total_chunks_processed)
                      ELSE <<>>
            IN  /\ th' = Set(t, [th[t] EXCEPT
                                   !.pc = IF cs = <<>> THEN "skip"
                                          ELSE "chunks_open",
                                   !.batch_chunks = cs,
                                   !.read_failed = ~path_exists])
                /\ hist' = [hist EXCEPT
                              !.runs[th[t].batch_num] = Cap2(@),
                              !.failure = @ \/ ~path_exists]
    /\ UNCHANGED <<fixed, env, call, reply, disk, host, rag_system, rag, faults>>

\* Mutant of Skip: the batch without chunks is not marked complete.
SkipNoAdvance(t) ==
    /\ th[t].pc = "skip"
    /\ rag' = SetProgress(t, [Me(t).batch_progress EXCEPT
                                !.completed_batches = th[t].batch_num])
    /\ th' = Set(t, [th[t] EXCEPT !.pc = "save_open", !.ret = "next"])
    /\ UNCHANGED <<fixed, env, call, reply, disk, host, rag_system, faults, hist>>

\* Lines 361-365: no chunks, the batch is marked complete.
Skip(t) ==
    /\ th[t].pc = "skip"
    /\ rag' = SetProgress(t, [Me(t).batch_progress EXCEPT
                                !.completed_batches = th[t].batch_num + 1])
    /\ th' = Set(t, [th[t] EXCEPT !.pc = "save_open", !.ret = "next"])
    /\ UNCHANGED <<fixed, env, call, reply, disk, host, rag_system, faults, hist>>

\* save_batch_data: open(batch_file, 'w'), then json.dump.
ChunksOpen(t) ==
    /\ th[t].pc = "chunks_open"
    /\ batch_files' = [batch_files EXCEPT ![th[t].batch_num] = PartialFile]
    /\ th' = Set(t, [th[t] EXCEPT !.pc = "chunks_dump"])
    /\ UNCHANGED <<fixed, env, call, reply, progress_file, sub_files, host, rag_system, rag,
                   faults, hist>>

ChunksDump(t) ==
    /\ th[t].pc = "chunks_dump"
    /\ batch_files' = [batch_files EXCEPT
                         ![th[t].batch_num] = OkFile(th[t].batch_chunks)]
    /\ th' = Set(t, [th[t] EXCEPT !.pc = "embed", !.i = 0,
                                  !.sub_batch_count = 0, !.created = 0])
    /\ UNCHANGED <<fixed, env, call, reply, progress_file, sub_files, host, rag_system, rag,
                   faults, hist>>

\* ------------------------------------------------- process_batch_embeddings
SubBatch(t) ==
    SubSeqFrom(th[t].batch_chunks, th[t].i + 1,
               Min(th[t].i + embedding_batch_size, Len(th[t].batch_chunks)))

\* open(embedding_sub_file, 'wb') for sub-batch k (from 0) of batch b.
OpenEmb(b, k) ==
    [sub_files EXCEPT ![b] =
        IF k + 1 <= Len(@)
        THEN [@ EXCEPT ![k + 1].emb = PartialFile]
        ELSE Append(@, [emb |-> PartialFile, idx |-> AbsentFile])]

\* Mutant of StartSubBatch: the id list is cut from the start of the batch
\* instead of from the sub-batch.
StartSubBatchFirstIds(t, vectors, failed) ==
    /\ th' = Set(t, [th[t] EXCEPT
                       !.pc = "emb_dump",
                       !.sub_embeddings = vectors,
                       !.chunk_indices =
                          [p \in 1..Len(SubBatch(t)) |->
                              th[t].batch_chunks[p].id]])
    /\ sub_files' = OpenEmb(th[t].batch_num, th[t].sub_batch_count)
    /\ hist' = [hist EXCEPT
                  !.failed =
                     (@ \ { <<th[t].batch_num, SubBatch(t)[p].id>> :
                              p \in 1..Len(SubBatch(t)) })
                     \cup { <<th[t].batch_num, SubBatch(t)[p].id>> :
                              p \in failed }]

\* The batched embeddings call succeeded: one vector per text, in order.
\* save_embedding_batch then opens the embeddings file.
StartSubBatch(t, vectors, failed) ==
    /\ th' = Set(t, [th[t] EXCEPT
                       !.pc = "emb_dump",
                       !.sub_embeddings = vectors,
                       !.chunk_indices =
                          [p \in 1..Len(SubBatch(t)) |-> SubBatch(t)[p].id]])
    /\ sub_files' = OpenEmb(th[t].batch_num, th[t].sub_batch_count)
    /\ hist' = [hist EXCEPT
                  !.failed =
                     (@ \ { <<th[t].batch_num, SubBatch(t)[p].id>> :
                              p \in 1..Len(SubBatch(t)) })
                     \cup { <<th[t].batch_num, SubBatch(t)[p].id>> :
                              p \in failed }]

\* Mutant of EmbedSubBatch: the loop ends after the first sub-batch.
EmbedSubBatchOnce(t) ==
    /\ th[t].pc = "embed"
    /\ IF th[t].i >= Min(embedding_batch_size, Len(th[t].batch_chunks))
       THEN /\ th' = Set(t, [th[t] EXCEPT !.pc = "upd_completed"])
            /\ UNCHANGED <<sub_files, hist>>
       ELSE StartSubBatch(t, [p \in 1..Len(SubBatch(t)) |->
                                 Embed(SubBatch(t)[p].text)], {})
    /\ UNCHANGED <<fixed, env, call, reply, progress_file, batch_files, host,
                   rag_system, rag, faults>>

\* The sub-batch loop's head and lines 232-246; past the last chunk
\* process_batch_embeddings returns total_embeddings_created.
EmbedSubBatch(t) ==
    /\ th[t].pc = "embed"
    /\ IF th[t].i >= Len(th[t].batch_chunks)
       THEN /\ th' = Set(t, [th[t] EXCEPT !.pc = "upd_completed"])
            /\ UNCHANGED <<sub_files, hist>>
       ELSE StartSubBatch(t, [p \in 1..Len(SubBatch(t)) |->
                                 Embed(SubBatch(t)[p].text)], {})
    /\ UNCHANGED <<fixed, env, call, reply, progress_file, batch_files, host,
                   rag_system, rag, faults>>

\* pickle.dump(embeddings).
EmbDump(t) ==
    /\ th[t].pc = "emb_dump"
    /\ sub_files' = [sub_files EXCEPT
                       ![th[t].batch_num][th[t].sub_batch_count + 1].emb =
                          OkFile(th[t].sub_embeddings)]
    /\ th' = Set(t, [th[t] EXCEPT !.pc = "idx_open"])
    /\ UNCHANGED <<fixed, env, call, reply, progress_file, batch_files, host, rag_system, rag,
                   faults, hist>>

\* open(indices_sub_file, 'w').
IdxOpen(t) ==
    /\ th[t].pc = "idx_open"
    /\ sub_files' = [sub_files EXCEPT
                       ![th[t].batch_num][th[t].sub_batch_count + 1].idx =
                          PartialFile]
    /\ th' = Set(t, [th[t] EXCEPT !.pc = "idx_dump"])
    /\ UNCHANGED <<fixed, env, call, reply, progress_file, batch_files, host, rag_system, rag,
                   faults, hist>>

\* json.dump(chunk_indices), then lines 247 and 274 and the next sub-batch.
IdxDump(t) ==
    /\ th[t].pc = "idx_dump"
    /\ sub_files' = [sub_files EXCEPT
                       ![th[t].batch_num][th[t].sub_batch_count + 1].idx =
                          OkFile(th[t].chunk_indices)]
    /\ th' = Set(t, [th[t] EXCEPT
                       !.pc = "embed",
                       !.created = @ + Len(th[t].sub_embeddings),
                       !.sub_batch_count = @ + 1,
                       !.i = @ + embedding_batch_size,
                       !.sub_embeddings = <<>>,
                       !.chunk_indices = <<>>])
    /\ UNCHANGED <<fixed, env, call, reply, progress_file, batch_files, host, rag_system, rag,
                   faults, hist>>

\* Lines 374-376, one assignment each, then save_batch_progress.
UpdCompleted(t) ==
    /\ th[t].pc = "upd_completed"
    /\ rag' = SetProgress(t, [Me(t).batch_progress EXCEPT
                                !.completed_batches = th[t].batch_num + 1])
    /\ th' = Set(t, [th[t] EXCEPT !.pc = "upd_chunks"])
    /\ UNCHANGED <<fixed, env, call, reply, disk, host, rag_system, faults, hist>>

\* Mutant of UpdChunks: the count of the batch replaces the running count.
UpdChunksAssign(t) ==
    /\ th[t].pc = "upd_chunks"
    /\ rag' = SetProgress(t, [Me(t).batch_progress EXCEPT
                                !.total_chunks_processed =
                                   Len(th[t].batch_chunks)])
    /\ th' = Set(t, [th[t] EXCEPT !.pc = "upd_embeddings"])
    /\ UNCHANGED <<fixed, env, call, reply, disk, host, rag_system, faults, hist>>

UpdChunks(t) ==
    /\ th[t].pc = "upd_chunks"
    /\ rag' = SetProgress(t, [Me(t).batch_progress EXCEPT
                                !.total_chunks_processed =
                                   @ + Len(th[t].batch_chunks)])
    /\ th' = Set(t, [th[t] EXCEPT !.pc = "upd_embeddings"])
    /\ UNCHANGED <<fixed, env, call, reply, disk, host, rag_system, faults, hist>>

UpdEmbeddings(t) ==
    /\ th[t].pc = "upd_embeddings"
    /\ rag' = SetProgress(t, [Me(t).batch_progress EXCEPT
                                !.total_embeddings_created = @ + th[t].created])
    /\ th' = Set(t, [th[t] EXCEPT !.pc = "save_open", !.ret = "next"])
    /\ UNCHANGED <<fixed, env, call, reply, disk, host, rag_system, faults, hist>>

\* ---------------------------------------------------------- load_all_batches
\* Line 390: the files of the batches the instance counts complete are read
\* and self.chunks is assigned; an unreadable file raises out of
\* build_index_in_batches.
LoadAll(t) ==
    /\ th[t].pc = "load_all"
    /\ LET la == load_all_batches(Me(t).batch_progress.completed_batches)
       IN  IF la.raised
           THEN /\ th' = Set(t, [th[t] EXCEPT !.pc = "lc_except"])
                /\ UNCHANGED rag
           ELSE /\ rag' = [rag EXCEPT ![th[t].self].chunks = la.chunks]
                /\ th' = Set(t, [th[t] EXCEPT !.pc = "load_all_emb",
                                              !.all_embeddings = la.embeddings])
    /\ hist' = NoteLoad(hist, Me(t).batch_progress.completed_batches)
    /\ UNCHANGED <<fixed, env, call, reply, disk, host, rag_system, faults>>

\* Line 332: self.embeddings is assigned; load_corpus returns.
LoadAllEmb(t) ==
    /\ th[t].pc = "load_all_emb"
    /\ th' = Set(t, IF th[t].route = "bg"
                    THEN [IdleThread EXCEPT !.pc = "bg_done", !.route = "bg"]
                    ELSE IdleThread)
    /\ rag' = Collect([rag EXCEPT ![th[t].self].embeddings =
                                      th[t].all_embeddings],
                      rag_system, th')
    /\ UNCHANGED <<fixed, env, call, reply, disk, host, rag_system, faults, hist>>

\* ----------------------------------------------------- environment failures
\* count_total_lines cannot read the corpus: it prints the error and returns 0.
CountFail(t) ==
    /\ th[t].pc = "bib_count"
    /\ Me(t).batch_progress.total_batches = 0
    /\ faults < MaxFaults
    /\ faults' = faults + 1
    /\ th' = Set(t, [th[t] EXCEPT !.pc = "save_open", !.ret = "range"])
    /\ hist' = NoteStop(hist, th[t].route)
    /\ UNCHANGED <<fixed, env, call, reply, disk, host, rag_system, rag>>

\* process_batch_lines cannot read the corpus: its except clause prints the
\* error and returns [].
ReadFail(t) ==
    /\ th[t].pc = "loop"
    /\ th[t].batch_num < th[t].total_batches
    /\ faults < MaxFaults
    /\ faults' = faults + 1
    /\ th' = Set(t, [th[t] EXCEPT !.pc = "skip", !.batch_chunks = <<>>,
                                  !.read_failed = TRUE])
    /\ hist' = [hist EXCEPT !.runs[th[t].batch_num] = Cap2(@),
                             !.failure = TRUE]
    /\ UNCHANGED <<fixed, env, call, reply, disk, host, rag_system, rag>>

\* An open() for writing raises inside the loop's try: line 385 prints the
\* error and breaks.  The first save_batch_progress is outside the try.
WriteFail(t) ==
    /\ \/ th[t].pc \in {"chunks_open", "save_open"}
       \/ th[t].pc = "embed" /\ th[t].i < Len(th[t].batch_chunks)
    /\ faults < MaxFaults
    /\ faults' = faults + 1
    /\ th' = Set(t, [th[t] EXCEPT
                       !.pc = IF th[t].pc = "save_open" /\ th[t].ret = "range"
                              THEN "lc_except" ELSE "load_all"])
    /\ hist' = NoteStop(hist, th[t].route)
    /\ UNCHANGED <<fixed, env, call, reply, disk, host, rag_system, rag>>

\* Mutant of EmbedFallback: an item whose own call fails is left out instead
\* of getting the zero vector.
EmbedFallbackDrop(t) ==
    /\ th[t].pc = "embed"
    /\ th[t].i < Len(th[t].batch_chunks)
    /\ faults < MaxFaults
    /\ faults' = faults + 1
    /\ \E failed \in SUBSET (1..Len(SubBatch(t))) :
          LET kept == SelectSeq([p \in 1..Len(SubBatch(t)) |-> p],
                                LAMBDA p : p \notin failed)
          IN  StartSubBatch(t, [q \in 1..Len(kept) |->
                                  Embed(SubBatch(t)[kept[q]].text)], failed)
    /\ UNCHANGED <<fixed, env, call, reply, progress_file, batch_files, host,
                   rag_system, rag>>

\* The batched embeddings call raises: each text is embedded on its own by
\* create_embedding, which returns the zero vector when its call fails.
EmbedFallback(t) ==
    /\ th[t].pc = "embed"
    /\ th[t].i < Len(th[t].batch_chunks)
    /\ faults < MaxFaults
    /\ faults' = faults + 1
    /\ \E failed \in SUBSET (1..Len(SubBatch(t))) :
          StartSubBatch(t, [p \in 1..Len(SubBatch(t)) |->
                              IF p \in failed THEN ZeroVector
                              ELSE Embed(SubBatch(t)[p].text)], failed)
    /\ UNCHANGED <<fixed, env, call, reply, progress_file, batch_files, host,
                   rag_system, rag>>

\* The steps of a batch before completed_batches is incremented for it.
InBatch ==
    {"skip", "chunks_open", "chunks_dump", "embed", "emb_dump", "idx_open",
     "idx_dump", "upd_completed"}

\* The process is killed at any point of a build and started again: the files
\* stay as they are, the memory is lost, and importing rag_basic builds the
\* global from the files (leaving it None when BatchedRAG() raises).
KillRestart ==
    /\ \E t \in Threads : th[t].pc # "idle"
    /\ faults < MaxFaults
    /\ faults' = faults + 1
    /\ th' = [t \in Threads |-> IdleThread]
    /\ rag_building' = FALSE
    /\ rag_build_error' = FALSE
    /\ rag_system' = IF ConstructRaises THEN None ELSE 1
    /\ rag' = [i \in Inst |-> IF i = 1 /\ ~ConstructRaises THEN Constructed
                              ELSE BlankInst]
    /\ hist' = [NoteConstruct(hist) EXCEPT
                  !.kills = Cap2(@),
                  !.failure = FALSE,
                  !.stopped = "none",
                  !.missing = FALSE,
                  !.runs = [b \in BatchIds |-> 0],
                  !.interrupted =
                     IF \E t \in Threads : th[t].pc \in InBatch
                     THEN th[CHOOSE t \in Threads : th[t].pc \in InBatch].batch_num
                     ELSE 0 - 1]
    /\ UNCHANGED <<fixed, env, call, reply, disk>>

\* --------------------------------------------------------- specifications
\* The steps of load_corpus on thread t.
Step(t) ==
    \/ LcConstruct(t) \/ LcBuild(t) \/ BibCount(t) \/ SaveOpen(t)
    \/ SaveDump(t) \/ Range(t) \/ Loop(t) \/ Skip(t) \/ ChunksOpen(t)
    \/ ChunksDump(t) \/ EmbedSubBatch(t) \/ EmbDump(t) \/ IdxOpen(t)
    \/ IdxDump(t) \/ UpdCompleted(t) \/ UpdChunks(t) \/ UpdEmbeddings(t)
    \/ LoadAll(t) \/ LoadAllEmb(t)

\* load_corpus called by one caller at a time, as the design intends, in a
\* process that can be killed and restarted.
NextCrash ==
    \/ \E t \in {1} : reload_corpus(t) \/ Step(t) \/ LcExcept(t)
    \/ KillRestart

SpecCrash == Init /\ [][NextCrash]_vars

\* The same with every failure of the environment.
Next ==
    \/ NextCrash
    \/ \E t \in {1} :
          CountFail(t) \/ ReadFail(t) \/ WriteFail(t) \/ EmbedFallback(t)

Spec == Init /\ [][Next]_vars

\* The host: its requests arrive at any time and run on threads of their own;
\* the environment does not fail.
NextHost ==
    \E t \in Threads :
        \/ reload_corpus(t) \/ build_brain(t) \/ BgStart(t) \/ BgDone(t)
        \/ Step(t) \/ LcExcept(t) \/ BgExcept(t)

InitHost ==
    /\ corpus \in { c \in Corpora : Len(c) <= MaxHostLines }
    /\ batch_size \in 1..MaxBatchSize
    /\ api_key = TRUE
    /\ path_exists = TRUE
    /\ call = NoCall
    /\ InitCommon

SpecHost == InitHost /\ [][NextHost]_vars

\* Mutant of EmbedDown: a sub-batch none of whose embedding calls succeeds
\* raises, and the loop over the batches is left.
EmbedDownAbort(t) ==
    /\ th[t].pc = "embed"
    /\ th[t].i < Len(th[t].batch_chunks)
    /\ th' = Set(t, [th[t] EXCEPT !.pc = "load_all"])
    /\ hist' = NoteStop(hist, th[t].route)
    /\ UNCHANGED <<fixed, env, call, reply, disk, host, rag_system, rag, faults>>

\* The embedding service is down: the batched call raises and so does every
\* single call of the fallback, so every vector of the sub-batch is the zero
\* vector.  This can happen at every sub-batch of a build.
EmbedDown(t) ==
    /\ th[t].pc = "embed"
    /\ th[t].i < Len(th[t].batch_chunks)
    /\ StartSubBatch(t, [p \in 1..Len(SubBatch(t)) |-> ZeroVector],
                     1..Len(SubBatch(t)))
    /\ UNCHANGED <<fixed, env, call, reply, progress_file, batch_files, host,
                   rag_system, rag, faults>>

\* A build that is not killed: the thread that runs load_corpus keeps taking
\* its next step, whether the embedding service answers or not.
NextLive == \E t \in {1} : reload_corpus(t) \/ Step(t) \/ EmbedDown(t)

BuildRuns == \E t \in {1} : Step(t) \/ EmbedDown(t)

SpecLive == Init /\ [][NextLive]_vars /\ WF_vars(BuildRuns)

\* Builds whose only trouble is the embedding service: batched calls fail and,
\* in the fallback, any of the single calls.
NextEmbed ==
    \E t \in {1} : reload_corpus(t) \/ Step(t) \/ EmbedFallback(t)

SpecEmbed == Init /\ [][NextEmbed]_vars

\* ------------------------------------------------------------------- reading
\* The embeddings of the queries the host asks.
Queries == { <<1, 0, 0>>, <<0, 1, 0>> }

\* The values of k the host passes: /debug/rag passes any integer.
Ks == (0 - 1)..MaxK

\* The call retrieve(query, k) has no third argument.
NoFilter == "(omitted)"

Filters == { "", "amcf" }

Dot(a, b) == a[1] * b[1] + a[2] * b[2] + a[3] * b[3]

\* cosine_similarity(q, a) > cosine_similarity(q, b), for vectors that are not
\* zero and have no negative entry (the dot products are compared squared).
MoreSimilar(q, a, b) ==
    Dot(q, a) * Dot(q, a) * Dot(b, b) > Dot(q, b) * Dot(q, b) * Dot(a, a)

\* cosine_similarity is 0/0 when either vector is zero (the vector
\* create_embedding returns when the service fails): numpy yields nan.
IsNaN(q, e) == Dot(q, q) = 0 \/ Dot(e, e) = 0

\* key(x) < key(y) for the positions x and y of es, as the sort compares the
\* similarities: every comparison with nan is false.
Less(q, es, x, y) ==
    /\ ~IsNaN(q, es[x])
    /\ ~IsNaN(q, es[y])
    /\ MoreSimilar(q, es[y], es[x])

Reverse(s) == [i \in 1..Len(s) |-> s[Len(s) + 1 - i]]

\* count_run of list.sort: the last position of the run that starts the list,
\* strictly descending when desc and never descending otherwise.
RECURSIVE RunEnd(_, _, _, _, _)
RunEnd(q, es, s, i, desc) ==
    IF i >= Len(s) THEN Len(s)
    ELSE IF Less(q, es, s[i + 1], s[i]) = desc
         THEN RunEnd(q, es, s, i + 1, desc)
         ELSE i

\* The bisection of binarysort: where the pivot goes among s[l..r-1].
RECURSIVE Bisect(_, _, _, _, _, _)
Bisect(q, es, s, pivot, l, r) ==
    IF l >= r THEN l
    ELSE LET p == l + ((r - l) \div 2)
         IN  IF Less(q, es, pivot, s[p])
             THEN Bisect(q, es, s, pivot, l, p)
             ELSE Bisect(q, es, s, pivot, p + 1, r)

\* binarysort: s[1..start-1] is sorted, and the elements from start on are
\* inserted one by one.
RECURSIVE binarysort(_, _, _, _)
binarysort(q, es, s, start) ==
    IF start > Len(s) THEN s
    ELSE LET l == Bisect(q, es, s, s[start], 1, start)
         IN  binarysort(q, es,
                        SubSeqFrom(s, 1, l - 1) \o <<s[start]>>
                           \o SubSeqFrom(s, l, start - 1)
                           \o SubSeqFrom(s, start + 1, Len(s)),
                        start + 1)

\* list.sort on a list shorter than 64 (one run, extended by binarysort), in
\* ascending order of the key.
sort(q, es, s) ==
    IF Len(s) < 2 THEN s
    ELSE LET desc == Less(q, es, s[2], s[1])
             n == RunEnd(q, es, s, 2, desc)
             run == IF desc THEN Reverse(SubSeqFrom(s, 1, n))
                            ELSE SubSeqFrom(s, 1, n)
         IN  binarysort(q, es, run \o SubSeqFrom(s, n + 1, Len(s)), n + 1)

\* The positions of the embeddings after similarities.sort(reverse=True,
\* key=...): the list is reversed, sorted and reversed again.
similarities(q, es) ==
    Reverse(sort(q, es, Reverse([i \in 1..Len(es) |-> i])))

\* Python's s[:k]: the first k elements, and all but the last -k when k < 0.
SliceTo(s, k) ==
    IF k >= 0 THEN SubSeqFrom(s, 1, Min(k, Len(s)))
    ELSE SubSeqFrom(s, 1, Len(s) + k)

\* Lines 420-424: a copy of the chunk at each of the positions top, with its
\* similarity (kept as the dot product and the embedding's squared norm);
\* self.chunks[idx] raises IndexError past the end of the chunk list.
Results(r, q, top) ==
    IF \E x \in 1..Len(top) : top[x] > Len(r.chunks)
    THEN [raised |-> TRUE, results |-> <<>>]
    ELSE [raised |-> FALSE,
          results |->
             [x \in 1..Len(top) |->
                 [id |-> r.chunks[top[x]].id,
                  text |-> r.chunks[top[x]].text,
                  source |-> r.chunks[top[x]].source,
                  batch |-> r.chunks[top[x]].batch,
                  similarity |->
                     <<Dot(q, r.embeddings[top[x]]),
                       Dot(r.embeddings[top[x]], r.embeddings[top[x]])>>]]]

\* BatchedRAG.search on the instance r.
search(r, q, top_k) ==
    IF r.chunks = <<>> \/ r.embeddings = <<>>
    THEN [raised |-> FALSE, results |-> <<>>]
    ELSE Results(r, q, SliceTo(similarities(q, r.embeddings), top_k))

\* What retrieve(query, k) finds on the outcome g of its _get_rag_system()
\* call: [] without an engine and when search raises.
Retrieved(g, q, k) ==
    IF g.sys = None THEN <<>> ELSE search(g.rag[g.sys], q, k).results

\* The text and the source of each result, as retrieve returns them.
TextAndSource(found) ==
    [x \in 1..Len(found) |->
        [text |-> found[x].text, source |-> found[x].source]]

\* retrieve(query, k).  The function takes two arguments: a call with a filter
\* raises TypeError before the body runs (the reply then records what the call
\* without the filter returns).
retrieve(q, k, f) ==
    /\ IF f # NoFilter
       THEN /\ \E g \in {GetRagSystem} :
                \E found \in {Retrieved(g, q, k)} :
                \E u \in {TextAndSource(found)} :
                  reply' = [NoReply EXCEPT !.op = "retrieve", !.k = k,
                                           !.filter = f, !.raised = TRUE,
                                           !.unfiltered = u]
            /\ UNCHANGED <<rag_system, rag, hist>>
       ELSE \E g \in {GetRagSystem} :
            \E hits \in {Retrieved(g, q, k)} :
            \E found \in {TextAndSource(hits)} :
                /\ reply' = [NoReply EXCEPT
                               !.op = "retrieve", !.k = k, !.filter = f,
                               !.ready = is_ready(g),
                               !.results = found, !.unfiltered = found]
                /\ rag_system' = g.sys
                /\ rag' = g.rag
                /\ hist' = IF rag_system = None /\ g.sys # None
                           THEN NoteConstruct(hist) ELSE hist
    /\ UNCHANGED <<fixed, env, call, disk, host, th, faults>>

\* BatchedRAG.get_build_status on the instance r.
InstanceStatus(r) ==
    IF r.batch_progress.total_batches = 0
    THEN [NoReply EXCEPT !.op = "status", !.status = "not_started"]
    ELSE IF r.batch_progress.completed_batches >= r.batch_progress.total_batches
    THEN [NoReply EXCEPT !.op = "status", !.status = "complete",
                         !.percentage = 100,
                         !.chunks_processed = Len(r.chunks),
                         !.embeddings_created = Len(r.embeddings)]
    ELSE [NoReply EXCEPT
            !.op = "status", !.status = "building",
            !.percentage = Percentage(r.batch_progress.completed_batches,
                                      r.batch_progress.total_batches),
            !.chunks_processed = r.batch_progress.total_chunks_processed,
            !.embeddings_created = r.batch_progress.total_embeddings_created]

\* The module's is_ready(): a call by the host.
IsReadyCall ==
    /\ \E g \in {GetRagSystem} :
           /\ reply' = [NoReply EXCEPT !.op = "is_ready", !.ready = is_ready(g)]
           /\ rag_system' = g.sys
           /\ rag' = g.rag
           /\ hist' = IF rag_system = None /\ g.sys # None
                      THEN NoteConstruct(hist) ELSE hist
    /\ UNCHANGED <<fixed, env, call, disk, host, th, faults>>

\* Mutant of get_build_status: the status call saves the progress record of
\* the engine it reports on.
get_build_status_saving ==
    /\ \E g \in {GetRagSystem} :
           /\ reply' = IF g.sys = None
                       THEN [NoReply EXCEPT !.op = "status",
                                            !.status = "not_initialized"]
                       ELSE InstanceStatus(g.rag[g.sys])
           /\ rag_system' = g.sys
           /\ rag' = g.rag
           /\ progress_file' = IF g.sys = None THEN progress_file
                                ELSE OkFile(g.rag[g.sys].batch_progress)
           /\ hist' = IF rag_system = None /\ g.sys # None
                      THEN NoteConstruct(hist) ELSE hist
    /\ UNCHANGED <<fixed, env, call, batch_files, sub_files, host, th, faults>>

\* The module's get_build_status(): the engine's status, or not_initialized
\* when there is no engine.
get_build_status ==
    /\ \E g \in {GetRagSystem} :
           /\ reply' = IF g.sys = None
                       THEN [NoReply EXCEPT !.op = "status",
                                            !.status = "not_initialized"]
                       ELSE InstanceStatus(g.rag[g.sys])
           /\ rag_system' = g.sys
           /\ rag' = g.rag
           /\ hist' = IF rag_system = None /\ g.sys # None
                      THEN NoteConstruct(hist) ELSE hist
    /\ UNCHANGED <<fixed, env, call, disk, host, th, faults>>

\* The host asks while builds run, are killed and are started again, with or
\* without the API key.
NextServe ==
    \/ \E t \in {1} : reload_corpus(t) \/ Step(t) \/ LcExcept(t)
    \/ KillRestart
    \/ \E q \in Queries, k \in Ks : retrieve(q, k, NoFilter)
    \/ \E f \in Filters : retrieve(<<1, 0, 0>>, MaxK, f)
    \/ get_build_status
    \/ IsReadyCall

InitServe ==
    /\ corpus \in { c \in Corpora : Len(c) <= MaxServeLines }
    /\ batch_size \in 1..MaxBatchSize
    /\ api_key \in BOOLEAN
    /\ path_exists = TRUE
    /\ call = NoCall
    /\ InitCommon

SpecServe == InitServe /\ [][NextServe]_vars

\* The status of an engine whose progress record counts any number of
\* batches complete out of any number of batches.
InitStatus ==
    /\ corpus = <<>>
    /\ batch_size = 1
    /\ api_key = TRUE
    /\ path_exists = TRUE
    /\ \E c \in 0..MaxTotalBatches, t \in 0..MaxTotalBatches :
          /\ progress_file =
                OkFile([DefaultProgress EXCEPT !.completed_batches = c,
                                               !.total_batches = t])
          /\ rag = [i \in Inst |->
                     IF i = 1
                     THEN [BlankInst EXCEPT
                             !.batch_progress.completed_batches = c,
                             !.batch_progress.total_batches = t]
                     ELSE BlankInst]
    /\ batch_files = [b \in BatchIds |-> AbsentFile]
    /\ sub_files = [b \in BatchIds |-> <<>>]
    /\ rag_system = 1
    /\ reply = NoReply
    /\ call = NoCall
    /\ rag_building = FALSE
    /\ rag_build_error = FALSE
    /\ th = [t \in Threads |-> IdleThread]
    /\ faults = 0
    /\ hist = InitHist

NextStatus == get_build_status

SpecStatus == InitStatus /\ [][NextStatus]_vars

\* ------------------------------------------------------ the text functions
\* The program at rest, where a text function is called on its own.
AtRest ==
    /\ corpus = <<>>
    /\ batch_size = 1
    /\ api_key = TRUE
    /\ path_exists = TRUE
    /\ InitCommon

\* The lengths of the words of the texts: two words of 24 and 25 characters
\* join to 50 characters, two of 25 to 51.
WordLens == {24, 25, 51}

\* The texts of up to MaxPieces pieces.
InputTexts ==
    { s \in UNION { [1..n -> {0} \cup WordLens] : n \in 0..MaxPieces } :
        \A i \in 1..(Len(s) - 1) : ~(IsWord(s[i]) /\ IsWord(s[i + 1])) }

\* The call chunk_text(text, max_words) returns.
ChunkText ==
    /\ call.fn = "chunk_text"
    /\ ~call.done
    /\ call' = [call EXCEPT !.done = TRUE,
                            !.out = chunk_text(call.text, call.max_words)]
    /\ UNCHANGED <<fixed, env, reply, disk, host, rag_system, rag, th, faults,
                   hist>>

\* Each chunk the call returned is chunked again with the same max_words.
ReChunk ==
    /\ call.fn = "chunk_text"
    /\ call.done
    /\ ~call.redone
    /\ call' = [call EXCEPT
                  !.redone = TRUE,
                  !.again = [x \in 1..Len(call.out) |->
                               chunk_text(call.out[x], call.max_words)]]
    /\ UNCHANGED <<fixed, env, reply, disk, host, rag_system, rag, th, faults,
                   hist>>

InitChunk ==
    /\ call \in [fn : {"chunk_text"}, text : InputTexts,
                 max_words : 1..MaxMaxWords, done : {FALSE}, out : {<<>>},
                 redone : {FALSE}, again : {<<>>}]
    /\ AtRest

NextChunk == ChunkText \/ ReChunk

SpecChunk == InitChunk /\ [][NextChunk]_vars

\* The strings of the JSON values: 20 and 21 characters, and 21 characters
\* between whitespace.
JsonStrings == { <<20>>, <<21>>, <<0, 10, 0, 10, 0>> }

JsonKeys == {"text", "Content", "meta"}

\* The dicts of up to MaxItems items with values among vs: no key twice.
DictsOf(vs) ==
    { Dict(items) :
        items \in { it \in UNION { [1..n -> [key : JsonKeys, value : vs]] :
                                     n \in 0..MaxItems } :
                      \A i, j \in 1..Len(it) :
                         it[i].key = it[j].key => i = j } }

ListsOf(vs) == { List(values) : values \in UNION { [1..n -> vs] : n \in 0..MaxItems } }

\* The JSON values nested up to d deep.
RECURSIVE JsonValues(_)
JsonValues(d) ==
    IF d = 0 THEN { Str(x) : x \in JsonStrings } \cup {Num}
    ELSE JsonValues(0) \cup DictsOf(JsonValues(d - 1))
            \cup ListsOf(JsonValues(d - 1))

\* The call extract_text_from_json_line(json_obj) returns.
ExtractText ==
    /\ call.fn = "extract_text_from_json_line"
    /\ ~call.done
    /\ call' = [call EXCEPT
                  !.done = TRUE,
                  !.out = extract_text_from_json_line(call.json_obj)]
    /\ UNCHANGED <<fixed, env, reply, disk, host, rag_system, rag, th, faults,
                   hist>>

InitExtract ==
    /\ call \in [fn : {"extract_text_from_json_line"},
                 json_obj : JsonValues(MaxDepth), done : {FALSE}, out : {<<>>}]
    /\ AtRest

NextExtract == ExtractText

SpecExtract == InitExtract /\ [][NextExtract]_vars

\* A text of n words of len characters each, single spaces between them.
UniformText(n, len) == join([i \in 1..n |-> len])

\* A record whose only field is the given one.
OneField(key, s) == JsonLine(Dict(<<[key |-> key, value |-> Str(s)]>>))

\* The lines of the files: blank, not JSON, a record without text, a record
\* of one chunk and a record of two chunks (401 words).
FileLines ==
    { BlankLine, MalformedLine, JsonLine(Dict(<<>>)),
      OneField("text", UniformText(1, 51)),
      OneField("text", UniformText(401, 51)) }

Files == UNION { [1..n -> FileLines] : n \in 0..MaxFileLines }

\* Files of one record whose only field is content: one word of up to 60
\* characters, and 500 words.
ContentFiles ==
    { <<OneField("content", UniformText(1, n))>> : n \in 1..60 }
       \cup { <<OneField("content", UniformText(500, 5))>> }

\* The call process_batch_lines(path, batch_num) returns, on an instance with
\* the given batch_size and total_chunks_processed.
ProcessBatchLines ==
    /\ call.fn = "process_batch_lines"
    /\ ~call.done
    /\ call' = [call EXCEPT
                  !.done = TRUE,
                  !.out = process_file_batch(call.file, call.batch_size,
                                             call.batch_num, call.chunk_id)]
    /\ UNCHANGED <<fixed, env, reply, disk, host, rag_system, rag, th, faults,
                   hist>>

InitLines ==
    /\ \/ call \in [fn : {"process_batch_lines"}, file : Files,
                    batch_size : 1..MaxBatchSize,
                    batch_num : 0..(MaxFileLines - 1), chunk_id : {0, 7},
                    done : {FALSE}, out : {<<>>}]
       \/ call \in [fn : {"process_batch_lines"}, file : ContentFiles,
                    batch_size : {1}, batch_num : {0}, chunk_id : {0},
                    done : {FALSE}, out : {<<>>}]
    /\ AtRest

NextLines == ProcessBatchLines

SpecLines == InitLines /\ [][NextLines]_vars

\* The embeddings of an index: of chunks whose similarities to a query tie,
\* of a chunk that is more similar, and the zero vector of a chunk whose
\* embedding call failed.
SearchVectors == { ZeroVector, Embed(<<0, 1>>), Embed(<<0, 2>>), Embed(<<1, 1>>) }

\* create_embedding(query): the query's vector, zero when the call fails.
SearchQueries == Queries \cup {ZeroVector}

\* An engine whose index holds the embeddings es, one chunk for each.
IndexOf(es) ==
    [batch_progress |-> DefaultProgress,
     chunks |-> [x \in 1..Len(es) |->
                   [id |-> x - 1, text |-> <<0, x>>, source |-> 1, batch |-> 0]],
     embeddings |-> es]

\* The call search(query, top_k) returns.
Search ==
    /\ call.fn = "search"
    /\ ~call.done
    /\ call' = [call EXCEPT
                  !.done = TRUE,
                  !.out = search(IndexOf(call.embeddings), call.query,
                                 call.top_k).results]
    /\ UNCHANGED <<fixed, env, reply, disk, host, rag_system, rag, th, faults,
                   hist>>

InitSearch ==
    /\ call \in [fn : {"search"},
                 embeddings : UNION { [1..n -> SearchVectors] : n \in 0..MaxIndex },
                 query : SearchQueries, top_k : Ks, done : {FALSE},
                 out : {<<>>}]
    /\ AtRest

NextSearch == Search

SpecSearch == InitSearch /\ [][NextSearch]_vars

\* POST /build_brain starts a build: neither of the handler's two refusals
\* applies.
build_brain_starts == ~rag_building /\ ~is_ready(GetRagSystem)

\* Builds started through POST /build_brain only, in a process that can be
\* killed and restarted.
NextResume ==
    \/ \E t \in {1} :
          \/ build_brain(t) \/ BgStart(t) \/ BgDone(t)
          \/ Step(t) \/ LcExcept(t) \/ BgExcept(t)
    \/ KillRestart

SpecResume == Init /\ [][NextResume]_vars

\* The corpus file is removed (or was never put in place).
RemoveCorpus ==
    /\ path_exists
    /\ path_exists' = FALSE
    /\ UNCHANGED <<fixed, api_key, call, reply, disk, host, rag_system, rag, th,
                   faults, hist>>

\* One build at a time, started by either handler, in a process that keeps
\* running while the environment fails: the corpus cannot be read, a file
\* cannot be written, an embedding call fails, the API key or the corpus file
\* is missing.
NextBuild ==
    \/ \E t \in {1} :
          \/ reload_corpus(t) \/ build_brain(t) \/ BgStart(t) \/ BgDone(t)
          \/ Step(t) \/ LcExcept(t) \/ BgExcept(t)
          \/ CountFail(t) \/ ReadFail(t) \/ WriteFail(t) \/ EmbedFallback(t)
    \/ RemoveCorpus

InitBuild ==
    /\ corpus \in Corpora
    /\ batch_size \in 1..MaxBatchSize
    /\ api_key \in BOOLEAN
    /\ path_exists \in BOOLEAN
    /\ call = NoCall
    /\ InitCommon

SpecBuild == InitBuild /\ [][NextBuild]_vars

\* ================================================================ properties
\* Every chunk text of the corpus: chunk k of the non-blank line at position p.
CorpusTexts ==
    { x \in (0..(MaxLines - 1)) \X (1..MaxChunksPerLine) :
        /\ x[1] < Len(NonBlank(corpus))
        /\ x[2] <= NonBlank(corpus)[x[1] + 1].n }

Texts(cs) == { cs[p].text : p \in 1..Len(cs) }

\* The least number of batches of batch_size lines that hold n lines.
ExpectedBatches ==
    CHOOSE k \in 0..MaxLines :
        /\ k * batch_size >= count_total_lines(corpus)
        /\ k = 0 \/ (k - 1) * batch_size < count_total_lines(corpus)

\* C1: a build that was killed while a batch was in progress and started
\* again has, when it assembles its index, read the interrupted batch exactly
\* once since the restart, and its index holds as many chunks as the corpus
\* yields, with the same set of texts: what a build that is never interrupted
\* assembles.
C1_ResumedIndexEqualsUninterrupted ==
    \A t \in Threads :
        th[t].pc = "load_all_emb" =>
            /\ Len(Me(t).chunks) = Cardinality(CorpusTexts)
            /\ Texts(Me(t).chunks) = CorpusTexts
            /\ hist.interrupted >= 0 => hist.runs[hist.interrupted] = 1

C1_Witness ==
    /\ th[1].pc = "load_all_emb"
    /\ hist.interrupted = 1
    /\ hist.runs[1] = 1
    /\ Len(Me(1).chunks) > MaxChunksPerLine

\* C2: when the persisted completed_batches has reached total_batches, after
\* any kills and restarts, every batch was counted complete exactly once and
\* both totals are the number of chunks the corpus yields.
C2_EveryBatchCountedOnce ==
    (/\ progress_file.st = "ok"
     /\ progress_file.data.completed_batches = progress_file.data.total_batches)
    => /\ \A b \in 0..(progress_file.data.total_batches - 1) :
             hist.counted[b] = 1
       /\ progress_file.data.total_chunks_processed = Cardinality(CorpusTexts)
       /\ progress_file.data.total_embeddings_created = Cardinality(CorpusTexts)

C2_Witness ==
    /\ progress_file.st = "ok"
    /\ progress_file.data.total_batches = MaxLines
    /\ progress_file.data.completed_batches = MaxLines
    /\ progress_file.data.total_chunks_processed > 0
    /\ hist.kills >= 1
    /\ hist.interrupted = 1

\* C3: a batch whose read failed is not marked complete, neither in the
\* instance's progress nor in the progress file.
C3_ReadErrorLeavesBatchIncomplete ==
    \A t \in Threads :
        th[t].read_failed =>
            /\ Me(t).batch_progress.completed_batches <= th[t].batch_num
            /\ progress_file.st = "ok" =>
                  progress_file.data.completed_batches <= th[t].batch_num

\* The steps of load_corpus.
InLoadCorpus(t) ==
    th[t].pc \notin {"idle", "bg_start", "bg_done", "bg_except"}

\* C4: at most one thread is executing load_corpus.
C4_OneBuildAtATime ==
    Cardinality({ t \in Threads : InLoadCorpus(t) }) <= 1

\* A thread has assigned the new chunk list to the instance the readers see
\* and not yet the new embedding list, which differs from the old one.
TornIndexVisible ==
    \E t \in Threads :
        /\ th[t].pc = "load_all_emb"
        /\ th[t].self = rag_system
        /\ th[t].all_embeddings # rag[rag_system].embeddings

\* The instance the readers see is one a thread is still building.
BuildingInstanceVisible ==
    \E t \in Threads :
        /\ th[t].self # None
        /\ th[t].self = rag_system
        /\ th[t].pc \notin {"load_all_emb", "idle"}

\* C5: the chunks and the embeddings a reader sees come from one assembly,
\* and the instance it sees is not one whose index is being built.
C5_ReadersSeeOneAssembly ==
    ~TornIndexVisible /\ ~BuildingInstanceVisible

\* The embedding at each position was computed for the chunk there.
Aligned(cs, es) ==
    /\ Len(cs) = Len(es)
    /\ \A p \in 1..Len(cs) : es[p] \in {Embed(cs[p].text), ZeroVector}

\* C6: outside the two assignments of load_all_batches, every instance's
\* chunk list and embedding list are aligned.
C6_AssembledListsAligned ==
    \A i \in Inst :
        (\A t \in Threads : ~(th[t].self = i /\ th[t].pc = "load_all_emb"))
        => Aligned(rag[i].chunks, rag[i].embeddings)

\* C7: when load_all_batches met a batch whose chunk file exists while a
\* sub-batch file of it is missing, it did not raise and what it assembled
\* holds chunks of the batches before that one only.
C7_AssemblyStopsAtGap ==
    hist.load_gap >= 0 =>
        /\ ~hist.load_raised
        /\ \A b \in hist.load_seen : b < hist.load_gap

\* C8: the progress file's total_batches is the number of batches the corpus
\* needs, from the first save on, and so is the instance's from the moment
\* the build has counted the lines.
C8_TotalBatchesIsCeiling ==
    /\ progress_file.st = "ok" =>
          progress_file.data.total_batches = ExpectedBatches
    /\ \A t \in Threads :
          th[t].pc \notin {"idle", "bg_start", "bg_done", "bg_except",
                           "lc_construct", "lc_build", "lc_except",
                           "bib_count"}
          => Me(t).batch_progress.total_batches = ExpectedBatches

C8_Witness ==
    /\ progress_file.st = "ok"
    /\ count_total_lines(corpus) = MaxLines
    /\ batch_size = MaxLines - 1
    /\ progress_file.data.total_batches = 2
    /\ progress_file.data.completed_batches = 2
    /\ hist.kills >= 1

\* C9: every batch the progress file counts complete, and that produced
\* chunks, has its chunk file and all its sub-batch files written.
C9_FilesWrittenBeforeCounted ==
    progress_file.st = "ok" =>
        \A b \in 0..(progress_file.data.completed_batches - 1) :
            hist.produced[b] # <<>> =>
                /\ batch_files[b] = OkFile(hist.produced[b])
                /\ Len(sub_files[b]) = SubBatchesNeeded(Len(hist.produced[b]))
                /\ \A k \in 1..Len(sub_files[b]) :
                      /\ sub_files[b][k].emb.st = "ok"
                      /\ sub_files[b][k].idx.st = "ok"
                /\ Len(SubEmbeddings(sub_files[b])) = Len(hist.produced[b])
                /\ SubIndices(sub_files[b]) =
                      [p \in 1..Len(hist.produced[b]) |-> hist.produced[b][p].id]

C9_Witness ==
    /\ progress_file.st = "ok"
    /\ progress_file.data.completed_batches >= 2
    /\ hist.produced[1] # <<>>
    /\ Len(sub_files[1]) >= 2
    /\ hist.kills >= 1

RECURSIVE ProducedUpTo(_)
ProducedUpTo(b) ==
    IF b <= 0 THEN 0 ELSE Len(hist.produced[b - 1]) + ProducedUpTo(b - 1)

\* C10: whenever no build is running, after a kill at any point included, the
\* progress file can be loaded and its three counters are those of the last
\* batch that was completed.
C10_ProgressFileSurvivesCrash ==
    (\A t \in Threads : th[t].pc = "idle") =>
        /\ progress_file.st # "partial"
        /\ progress_file.st = "ok" =>
              /\ progress_file.data.total_chunks_processed =
                    ProducedUpTo(progress_file.data.completed_batches)
              /\ progress_file.data.total_embeddings_created =
                    ProducedUpTo(progress_file.data.completed_batches)

\* The ids along a chunk list increase strictly (so no two are equal).
StrictlyIncreasingIds(cs) ==
    \A p \in 1..Len(cs) : \A q \in 1..Len(cs) : p < q => cs[p].id < cs[q].id

\* C11: in every reachable state, after zero-chunk batches, failed batches,
\* kills and restarts, the ids of every instance's assembled chunk list are
\* strictly increasing, hence pairwise different.
C11_AssembledIdsUniqueIncreasing ==
    \A i \in Inst : StrictlyIncreasingIds(rag[i].chunks)

\* The chunks of sub-batch k (from 1) of a batch's chunk list.
SubBatchOf(cs, k) ==
    SubSeqFrom(cs, (k - 1) * embedding_batch_size + 1,
               Min(k * embedding_batch_size, Len(cs)))

\* C12: whatever embedding calls fail, every sub-batch persisted for a batch
\* holds one vector and one id per chunk of the sub-batch, the ids being the
\* chunks' in order and the vector of an item whose calls all failed being the
\* zero vector (any other being the text's embedding); and a sub-batch that is
\* being saved has that many vectors and ids, so the batch goes on.
C12_FallbackKeepsSubBatchAligned ==
    /\ \A b \in BatchIds : \A k \in 1..Len(sub_files[b]) :
          (/\ batch_files[b].st = "ok"
           /\ sub_files[b][k].emb.st = "ok"
           /\ sub_files[b][k].idx.st = "ok")
          => LET sb == SubBatchOf(batch_files[b].data, k)
                 f == sub_files[b][k]
             IN  /\ Len(f.emb.data) = Len(sb)
                 /\ f.idx.data = [p \in 1..Len(sb) |-> sb[p].id]
                 /\ \A p \in 1..Len(sb) :
                       f.emb.data[p] = IF <<b, sb[p].id>> \in hist.failed
                                       THEN ZeroVector
                                       ELSE Embed(sb[p].text)
    /\ \A t \in Threads :
          th[t].pc \in {"emb_dump", "idx_open", "idx_dump"}
          => /\ Len(th[t].sub_embeddings) = Len(SubBatch(t))
             /\ th[t].chunk_indices =
                   [p \in 1..Len(SubBatch(t)) |-> SubBatch(t)[p].id]

C12_Witness ==
    /\ progress_file.st = "ok"
    /\ progress_file.data.completed_batches >= 1
    /\ batch_files[0].st = "ok"
    /\ Len(sub_files[0]) = 2
    /\ sub_files[0][1].emb = OkFile(<<ZeroVector, Embed(<<0, 2>>)>>)
    /\ sub_files[0][2].emb = OkFile(<<ZeroVector>>)
    /\ sub_files[0][2].idx = OkFile(<<2>>)

\* C13: a call retrieve(query, k) that returns, returns at most max(k, 0)
\* results, for every k the host passes, 0 and negative values included.
C13_AtMostKResults ==
    (reply.op = "retrieve" /\ ~reply.raised)
    => Len(reply.results) <= (IF reply.k > 0 THEN reply.k ELSE 0)

\* C14: a call retrieve(query, k) made while is_ready() is false returns the
\* empty list and raises nothing.
C14_NotReadyReturnsEmpty ==
    (reply.op = "retrieve" /\ reply.filter = NoFilter /\ ~reply.ready)
    => reply.results = <<>> /\ ~reply.raised

C14_Witness ==
    /\ reply.op = "retrieve"
    /\ reply.filter = NoFilter
    /\ reply.k = MaxK
    /\ ~reply.ready
    /\ reply.results = <<>>
    /\ rag_system # None
    /\ rag[rag_system].chunks = <<>>
    /\ progress_file.st = "ok"
    /\ progress_file.data.total_chunks_processed > 0
    /\ hist.kills >= 1

\* C15: a call retrieve(query, k, filter) returns, and with the empty filter
\* it returns what retrieve(query, k) returns.
C15_FilteredRetrieve ==
    (reply.op = "retrieve" /\ reply.filter # NoFilter)
    => /\ ~reply.raised
       /\ reply.filter = "" => reply.results = reply.unfiltered

\* C16: the status get_build_status() returns is not_started, building or
\* complete.
C16_StatusIsOneOfThree ==
    reply.op = "status"
    => reply.status \in {"not_started", "building", "complete"}

\* C17: with total_batches = 0 the status is not_started with percentage 0;
\* with completed_batches < total_batches it is building with percentage
\* floor(completed_batches * 100 / total_batches), below 100; with
\* completed_batches >= total_batches > 0 it is complete with percentage 100.
C17_StatusAndPercentage ==
    (reply.op = "status" /\ rag_system # None)
    => LET c == rag[rag_system].batch_progress.completed_batches
           t == rag[rag_system].batch_progress.total_batches
       IN  /\ t = 0 => reply.status = "not_started" /\ reply.percentage = 0
           /\ (t > 0 /\ c < t)
              => /\ reply.status = "building"
                 /\ reply.percentage = (c * 100) \div t
                 /\ reply.percentage < 100
           /\ (t > 0 /\ c >= t)
              => reply.status = "complete" /\ reply.percentage = 100

\* C18: once a background build that a failure stopped (an exception in a
\* batch, a corpus that cannot be read) has ended, the host holds the error:
\* the status interface reports it, and never a build ended without error.
C18_StoppedBuildReportsError ==
    ((\A t \in Threads : th[t].pc = "idle") /\ hist.stopped = "bg")
    => rag_build_error

\* C19: a call of load_corpus made without the API key or with a corpus path
\* that does not exist raises before it writes anything or works on a batch:
\* it gets no further than the constructor and the count of the lines, and
\* the caller handles the exception.
C19_MissingInputFailsFast ==
    hist.missing
    => \A t \in Threads :
          th[t].pc \in {"idle", "bg_start", "lc_construct", "lc_build",
                        "bib_count", "lc_except", "bg_except"}

\* C20: a batch that yields no chunks is marked complete: completed_batches
\* goes up by exactly one, total_chunks_processed and total_embeddings_created
\* stay as they are, no chunk file and no embedding file is written, the
\* progress record is saved, and the loop goes on with the next batch index.
C20_EmptyBatchMarkedComplete ==
    [][\A t \in Threads :
        /\ (th[t].pc = "skip" /\ th'[t].pc = "save_open")
           => /\ rag'[th[t].self].batch_progress =
                   [rag[th[t].self].batch_progress EXCEPT
                      !.completed_batches = @ + 1]
              /\ th'[t].ret = "next"
              /\ th'[t].batch_chunks = <<>>
              /\ UNCHANGED <<progress_file, batch_files, sub_files>>
        /\ (/\ th[t].pc \in {"save_open", "save_dump"}
            /\ th[t].ret = "next"
            /\ th[t].batch_chunks = <<>>
            /\ th'[t].pc \notin {th[t].pc, "idle"})
           => /\ UNCHANGED <<batch_files, sub_files>>
              /\ th[t].pc = "save_dump"
                 => /\ progress_file' = OkFile(rag[th[t].self].batch_progress)
                    /\ progress_file'.data.completed_batches
                         = th[t].batch_num + 1
                    /\ th'[t].pc = "loop"
                    /\ th'[t].batch_num = th[t].batch_num + 1
      ]_vars

C20_Witness ==
    /\ th[1].pc = "loop"
    /\ th[1].batch_num = 1
    /\ th[1].total_batches > 1
    /\ hist.counted[0] = 1
    /\ hist.produced[0] = <<>>
    /\ batch_files[0] = AbsentFile
    /\ sub_files[0] = <<>>
    /\ progress_file.st = "ok"
    /\ progress_file.data.completed_batches = 1
    /\ progress_file.data.total_chunks_processed = 0

\* The three counters of the progress record a are at most those of b.
CountersLeq(a, b) ==
    /\ a.completed_batches <= b.completed_batches
    /\ a.total_chunks_processed <= b.total_chunks_processed
    /\ a.total_embeddings_created <= b.total_embeddings_created

\* completed_batches lies between 0 and total_batches.
CompletedInRange(bp) ==
    0 <= bp.completed_batches /\ bp.completed_batches <= bp.total_batches

\* C21: in a build with kills and restarts, the persisted and the in-memory
\* values of completed_batches, total_chunks_processed and
\* total_embeddings_created never decrease from one step to the next, and
\* 0 <= completed_batches <= total_batches.
C21_CountersNeverDecrease ==
    [][/\ (progress_file.st = "ok" /\ progress_file'.st = "ok")
          => /\ CountersLeq(progress_file.data, progress_file'.data)
             /\ CompletedInRange(progress_file'.data)
       /\ (rag_system # None /\ rag_system' # None)
          => /\ CountersLeq(rag[rag_system].batch_progress,
                            rag'[rag_system'].batch_progress)
             /\ CompletedInRange(rag'[rag_system'].batch_progress)
      ]_vars

\* The process is killed and started again in this step.
Restarted ==
    /\ faults' = faults + 1
    /\ \E t \in Threads : th[t].pc # "idle"
    /\ \A t \in Threads : th'[t].pc = "idle"

\* C21 as amended: the persisted values never decrease; the in-memory values
\* of the engine a build runs on never decrease and are never behind the
\* persisted ones, and a save writes them; a new engine (after a restart or in
\* a new call of load_corpus) starts from the persisted values; and
\* 0 <= completed_batches <= total_batches.
C21_CountersNeverDecreaseInProcess ==
    [][/\ (progress_file.st = "ok" /\ progress_file'.st = "ok")
          => /\ CountersLeq(progress_file.data, progress_file'.data)
             /\ CompletedInRange(progress_file'.data)
       /\ rag_system' # None
          => CompletedInRange(rag'[rag_system'].batch_progress)
       /\ (rag_system' # None /\ progress_file.st = "ok"
             /\ (Restarted \/ rag_system' # rag_system))
          => rag'[rag_system'].batch_progress = progress_file.data
       /\ \A t \in Threads :
            /\ (th[t].self # None /\ th'[t].self = th[t].self)
               => CountersLeq(rag[th[t].self].batch_progress,
                              rag'[th[t].self].batch_progress)
            /\ (th[t].self # None /\ progress_file.st = "ok")
               => CountersLeq(progress_file.data, rag[th[t].self].batch_progress)
            /\ (th[t].pc = "save_dump" /\ progress_file'.st = "ok")
               => progress_file'.data = rag[th[t].self].batch_progress
      ]_vars

C21_Witness ==
    /\ hist.kills >= 1
    /\ th[1].pc = "save_open"
    /\ th[1].ret = "next"
    /\ progress_file.st = "ok"
    /\ progress_file.data.total_chunks_processed > 0
    /\ rag[th[1].self].batch_progress.total_chunks_processed
         > progress_file.data.total_chunks_processed

\* The chunk that starts at word i (counted from 0) of the words, as the claim
\* describes it: the next max_words words, or those that are left, with
\* single spaces between them.
ChunkAt(words, i, max_words) ==
    [p \in 1..(2 * Min(max_words, Len(words) - i) - 1) |->
        IF p % 2 = 1 THEN words[i + (p + 1) \div 2] ELSE 0]

\* C22: for every text and every max_words >= 1, chunk_text returns chunks of
\* at most max_words words each, which are consecutive runs of the text's
\* words that do not overlap, in the original order; each returned chunk has
\* at least 50 characters and every run of fewer than 50 characters is
\* dropped.
C22_ChunksAreBoundedRuns ==
    (call.fn = "chunk_text" /\ call.done)
    => LET words == SelectSeq(call.text, IsWord)
           m == call.max_words
           starts == { i \in 0..(Len(words) - 1) : i % m = 0 }
       IN  /\ \A x \in 1..Len(call.out) :
                 /\ Len(SelectSeq(call.out[x], IsWord)) <= m
                 /\ StrLen(call.out[x]) >= 50
           /\ \E f \in [1..Len(call.out) -> starts] :
                 /\ \A x \in 1..Len(call.out) :
                       call.out[x] = ChunkAt(words, f[x], m)
                 /\ \A x \in 1..(Len(call.out) - 1) : f[x] < f[x + 1]
                 /\ \A i \in starts :
                       StrLen(ChunkAt(words, i, m)) < 50
                       => \A x \in 1..Len(call.out) : f[x] # i

C22_Witness ==
    /\ call.fn = "chunk_text"
    /\ call.done
    /\ call.max_words = 2
    /\ Len(SelectSeq(call.text, IsWord)) = 3
    /\ Len(call.out) = 1
    /\ call.text[1] = 0

\* The strings joined with single spaces.
RECURSIVE SpaceJoined(_)
SpaceJoined(strings) ==
    IF strings = <<>> THEN <<>>
    ELSE IF Len(strings) = 1 THEN strings[1]
    ELSE strings[1] \o <<0>> \o SpaceJoined(Tail(strings))

\* The words from word i on, without those of the runs of max_words words
\* that make fewer than 51 characters.
RECURSIVE WordsOfKeptRuns(_, _, _)
WordsOfKeptRuns(words, i, max_words) ==
    IF i >= Len(words) THEN <<>>
    ELSE (IF StrLen(ChunkAt(words, i, max_words)) > 50
          THEN SelectSeq(ChunkAt(words, i, max_words), IsWord) ELSE <<>>)
         \o WordsOfKeptRuns(words, i + max_words, max_words)

\* C23: for every text with at least one word and every max_words >= 1, the
\* chunks chunk_text returns, joined with single spaces, are the text with its
\* whitespace normalised and trimmed, and chunking a returned chunk again with
\* the same max_words returns that chunk alone.
C23_ChunksJoinToText ==
    (call.fn = "chunk_text" /\ call.redone
       /\ SelectSeq(call.text, IsWord) # <<>>)
    => /\ SpaceJoined(call.out)
            = SpaceJoined([i \in 1..Len(SelectSeq(call.text, IsWord)) |->
                             <<SelectSeq(call.text, IsWord)[i]>>])
       /\ \A x \in 1..Len(call.out) : call.again[x] = <<call.out[x]>>

\* C23 as amended: the chunks joined with single spaces are the normalised
\* text without the runs of at most 50 characters, so the whole normalised
\* text when there is no such run; chunking a returned chunk again returns
\* that chunk alone.
C23_ChunksJoinToKeptRuns ==
    (call.fn = "chunk_text" /\ call.redone)
    => LET words == SelectSeq(call.text, IsWord)
           kept == WordsOfKeptRuns(words, 0, call.max_words)
       IN  /\ SpaceJoined(call.out)
                = SpaceJoined([i \in 1..Len(kept) |-> <<kept[i]>>])
           /\ kept = words
              => SpaceJoined(call.out)
                   = SpaceJoined([i \in 1..Len(words) |-> <<words[i]>>])
           /\ \A x \in 1..Len(call.out) : call.again[x] = <<call.out[x]>>

C23_Witness ==
    /\ call.fn = "chunk_text"
    /\ call.redone
    /\ call.max_words = 1
    /\ Len(call.out) = 2
    /\ Len(SelectSeq(call.text, IsWord)) = 3
    /\ \E i \in 1..(Len(call.text) - 1) :
          call.text[i] = 0 /\ call.text[i + 1] = 0

\* C24: a corpus line whose only text field holds fewer than 50 characters
\* produces no chunk, and a corpus line whose only text field content holds
\* 500 words of text produces exactly one chunk.
C24_ShortLineNoneLongLineOne ==
    (/\ call.fn = "process_batch_lines"
     /\ call.done
     /\ call.file \in ContentFiles)
    => LET s == call.file[1].obj.items[1].value.s
       IN  /\ StrLen(s) < 50 => call.out = <<>>
           /\ Len(SelectSeq(s, IsWord)) = 500 => Len(call.out) = 1

\* The position the loop counts for line i of the file: the lines before it
\* that are not blank.
CountedBefore(file, i) ==
    Cardinality({ j \in 1..(i - 1) : file[j].kind # "blank" })

\* The chunks among cs that come from the line counted as position p.
ChunksFrom(cs, p) == SelectSeq(cs, LAMBDA c : c.source = p + 1)

\* C25: a line of malformed JSON inside the batch's range produces no chunk
\* and does not end the batch: it takes one position of the range, every
\* valid line after it in the range is processed, and the chunks and ids of
\* the batch are those of the same file with a valid record without text in
\* the place of the malformed line.
C25_MalformedLineIsSkipped ==
    (call.fn = "process_batch_lines" /\ call.done /\ call.file \in Files)
    => LET lo == call.batch_num * call.batch_size
           hi == lo + call.batch_size
       IN  /\ \A i \in 1..Len(call.file) :
                 call.file[i].kind = "malformed"
                 => /\ ChunksFrom(call.out, CountedBefore(call.file, i)) = <<>>
                    /\ call.out
                         = process_file_batch(
                              [call.file EXCEPT ![i] = JsonLine(Dict(<<>>))],
                              call.batch_size, call.batch_num, call.chunk_id)
           /\ \A j \in 1..Len(call.file) :
                 (/\ call.file[j].kind = "json"
                  /\ CountedBefore(call.file, j) >= lo
                  /\ CountedBefore(call.file, j) < hi)
                 => Len(ChunksFrom(call.out, CountedBefore(call.file, j)))
                      = Len(line_chunk_texts(call.file[j]))
           /\ \A x \in 1..Len(call.out) : call.out[x].id = call.chunk_id + x - 1

C25_Witness ==
    /\ call.fn = "process_batch_lines"
    /\ call.done
    /\ call.batch_size = 2
    /\ call.batch_num = 0
    /\ Len(call.file) = 3
    /\ call.file[1].kind = "blank"
    /\ call.file[2].kind = "malformed"
    /\ Len(call.out) = 2
    /\ call.out[1].source = 2
    /\ call.out[2].id = call.chunk_id + 1

\* C30: the batches partition the corpus: the non-empty line at 0-based
\* position p (blank lines not counted) is processed in the batch
\* floor(p / batch_size) and in no other, and every chunk carries that batch
\* index in its batch field and line p + 1 as its source.
C30_BatchesPartitionCorpus ==
    (call.fn = "process_batch_lines" /\ call.done /\ call.file \in Files)
    => /\ \A x \in 1..Len(call.out) :
             /\ call.out[x].batch = call.batch_num
             /\ (call.out[x].source - 1) \div call.batch_size = call.batch_num
       /\ \A j \in 1..Len(call.file) :
             call.file[j].kind # "blank"
             => LET p == CountedBefore(call.file, j)
                    from == ChunksFrom(call.out, p)
                IN  IF p \div call.batch_size = call.batch_num
                    THEN [x \in 1..Len(from) |-> from[x].text]
                            = line_chunk_texts(call.file[j])
                    ELSE from = <<>>

C30_Witness ==
    /\ call.fn = "process_batch_lines"
    /\ call.done
    /\ call.batch_size = 1
    /\ call.batch_num = 1
    /\ Len(call.file) = 3
    /\ call.file[2].kind = "blank"
    /\ Len(line_chunk_texts(call.file[1])) = 1
    /\ Len(call.out) = 2
    /\ call.out[1].source = 2
    /\ call.out[1].batch = 1

\* The string values under a recognised field name, at any depth, that have
\* at least 20 characters after trimming, in discovery order.
RECURSIVE QualifyingValues(_, _)
QualifyingValues(obj, i) ==
    IF ~IsContainer(obj) \/ i > Len(obj.items) THEN <<>>
    ELSE (IF /\ obj.t = "dict"
             /\ Lower(obj.items[i].key) \in text_fields
             /\ obj.items[i].value.t = "str"
          THEN IF StrLen(strip(obj.items[i].value.s)) >= 20
               THEN <<strip(obj.items[i].value.s)>> ELSE <<>>
          ELSE QualifyingValues(obj.items[i].value, 1))
         \o QualifyingValues(obj, i + 1)

\* The string without its field labels and the space after each.
Unlabelled(s) ==
    SelectSeq([i \in 1..Len(s) |->
                 IF s[i] < 0 \/ (i > 1 /\ s[i - 1] < 0) THEN 0 - 1 ELSE s[i]],
              LAMBDA piece : piece >= 0)

\* C29: extract_text_from_json_line returns, in discovery order and separated
\* by single spaces (field labels aside), every string value under a
\* recognised field name at any depth that has at least 20 characters after
\* trimming, and the empty string exactly when there is none.
C29_ExtractsQualifyingValues ==
    (call.fn = "extract_text_from_json_line" /\ call.done)
    => /\ Unlabelled(call.out) = SpaceJoined(QualifyingValues(call.json_obj, 1))
       /\ call.out = <<>> <=> QualifyingValues(call.json_obj, 1) = <<>>

\* A step of a host call that reads: no build thread moves and the process is
\* not killed.
ReadStep == th' = th /\ faults' = faults /\ reply'.op # "none"

\* C26: a call of get_build_status(), is_ready() or retrieve(query, k), in any
\* state and between any two steps of a running build, does not raise and
\* leaves the progress file, the batch files, and the progress counters and
\* the index of the engine (the global one and the one a build runs on)
\* unchanged.
C26_ReadsChangeNothing ==
    [][ReadStep
        => /\ progress_file' = progress_file
           /\ batch_files' = batch_files
           /\ sub_files' = sub_files
           /\ rag_system # None => rag_system' = rag_system
           /\ \A i \in Inst :
                 (i = rag_system \/ \E t \in Threads : th[t].self = i)
                 => rag'[i] = rag[i]
           /\ reply'.raised
                 => reply'.op = "retrieve" /\ reply'.filter # NoFilter]_vars

C26_Witness ==
    /\ reply.op = "status"
    /\ reply.status = "building"
    /\ reply.chunks_processed > 0
    /\ \E t \in Threads : th[t].pc # "idle" /\ th[t].self = rag_system
    /\ rag_system # None
    /\ reply.chunks_processed
          = rag[rag_system].batch_progress.total_chunks_processed
    /\ faults = 0
    /\ ~hist.failure

\* C28: every result retrieve(query, k) returns carries the chunk's text, its
\* source and its similarity.
C28_ResultsCarryScore ==
    (reply.op = "retrieve" /\ ~reply.raised)
    => \A x \in 1..Len(reply.results) :
          {"text", "source", "similarity"} \subseteq DOMAIN reply.results[x]

\* The positions in the index of the results a search returned.
Positions(out) == [x \in 1..Len(out) |-> out[x].id + 1]

\* C27: the results of a search are in descending order of similarity to the
\* query, two chunks of equal similarity in the order of their positions in
\* the index, and no chunk left out is more similar than one returned.
C27_ResultsInDescendingOrder ==
    (call.fn = "search" /\ call.done)
    => LET q == call.query
           es == call.embeddings
           at == Positions(call.out)
       IN  /\ \A x, y \in 1..Len(at) :
                 x < y => /\ ~Less(q, es, at[x], at[y])
                          /\ (~Less(q, es, at[y], at[x])
                              /\ ~IsNaN(q, es[at[x]]) /\ ~IsNaN(q, es[at[y]]))
                             => at[x] < at[y]
           /\ \A x \in 1..Len(at) :
                 \A i \in 1..Len(es) :
                    (\A y \in 1..Len(at) : at[y] # i)
                    => ~Less(q, es, at[x], i)

\* Thread t takes a step of build_index_in_batches and stays in it, on the
\* same engine.
Building(t) ==
    /\ th[t].self # None
    /\ th'[t].self = th[t].self
    /\ th'[t] # th[t]

\* C31: a build processes the batches from the completed_batches it starts
\* with in strictly increasing order, and no step of it changes the chunk
\* file or a sub-batch file of a batch below completed_batches or lowers the
\* two totals.
C31_ResumedBuildLeavesEarlierBatches ==
    [][\A t \in Threads :
          Building(t)
          => /\ \A b \in BatchIds :
                   b < Me(t).batch_progress.completed_batches
                   => /\ batch_files'[b] = batch_files[b]
                      /\ sub_files'[b] = sub_files[b]
             /\ th'[t].batch_num # th[t].batch_num
                   => IF th[t].pc \in {"bib_count", "range"}
                      THEN th'[t].batch_num
                              = Me(t).batch_progress.completed_batches
                      ELSE th'[t].batch_num = th[t].batch_num + 1
             /\ rag'[th[t].self].batch_progress.total_chunks_processed
                   >= Me(t).batch_progress.total_chunks_processed
             /\ rag'[th[t].self].batch_progress.total_embeddings_created
                   >= Me(t).batch_progress.total_embeddings_created]_vars

C31_Witness ==
    /\ hist.kills >= 1
    /\ th[1].pc = "idx_dump"
    /\ th[1].batch_num >= 1
    /\ Me(1).batch_progress.completed_batches = th[1].batch_num
    /\ batch_files[0].st = "ok"
    /\ sub_files[0] # <<>>
    /\ Me(1).batch_progress.total_chunks_processed > 0

\* C32: for every batch the progress file counts complete and that produced
\* chunks, each sub-batch file pair holds between one and
\* embedding_batch_size vectors and as many ids, and the id lists in the
\* order of the sub-batch numbers are the ids of the batch's chunk file, so no
\* file of an earlier attempt is left beside them.
C32_SubBatchFilesCoverChunkFile ==
    progress_file.st = "ok" =>
        \A b \in 0..(progress_file.data.completed_batches - 1) :
            hist.produced[b] # <<>> =>
                /\ batch_files[b].st = "ok"
                /\ \A k \in 1..Len(sub_files[b]) :
                      /\ sub_files[b][k].emb.st = "ok"
                      /\ sub_files[b][k].idx.st = "ok"
                      /\ Len(sub_files[b][k].emb.data)
                            = Len(sub_files[b][k].idx.data)
                      /\ Len(sub_files[b][k].emb.data) >= 1
                      /\ Len(sub_files[b][k].emb.data) <= embedding_batch_size
                /\ SubIndices(sub_files[b])
                      = [p \in 1..Len(batch_files[b].data) |->
                            batch_files[b].data[p].id]

C32_Witness ==
    /\ progress_file.st = "ok"
    /\ progress_file.data.completed_batches >= 1
    /\ hist.produced[0] # <<>>
    /\ hist.interrupted = 0
    /\ hist.kills >= 1
    /\ Len(sub_files[0]) = 2
    /\ Len(sub_files[0][2].idx.data) = 1

\* The build on thread 1 has returned with every batch counted and the index
\* assembled from the batch files.
BuildEnded ==
    /\ th[1].pc = "idle"
    /\ rag_system # None
    /\ rag[rag_system].batch_progress.completed_batches
          = rag[rag_system].batch_progress.total_batches
    /\ progress_file = OkFile(rag[rag_system].batch_progress)
    /\ rag[rag_system].batch_progress.total_batches
          = Ceil(count_total_lines(corpus), batch_size)
    /\ rag[rag_system].chunks
          = AllChunks(0, rag[rag_system].batch_progress.completed_batches)
    /\ Len(rag[rag_system].embeddings) = Len(rag[rag_system].chunks)

\* C33: a build that is not killed and in which no batch raises ends with the
\* index assembled, completed_batches == total_batches and the status
\* complete, also when every embedding call fails.
C33_BuildEndsComplete ==
    (th[1].pc = "lc_construct")
    ~> (BuildEnded /\ InstanceStatus(rag[rag_system]).status = "complete")

\* C33 as it holds: the status is complete when the corpus has a line that is
\* not blank, and not_started (no batch was counted) when it has none.
C33_BuildEndsCompleteUnlessEmpty ==
    (th[1].pc = "lc_construct")
    ~> (/\ BuildEnded
        /\ InstanceStatus(rag[rag_system]).status
              = IF NonBlank(corpus) = <<>> THEN "not_started" ELSE "complete")

C33_Witness ==
    /\ BuildEnded
    /\ InstanceStatus(rag[rag_system]).status = "complete"
    /\ Len(rag[rag_system].embeddings) > embedding_batch_size
    /\ \A p \in 1..Len(rag[rag_system].embeddings) :
          rag[rag_system].embeddings[p] = ZeroVector
    /\ rag[rag_system].batch_progress.total_batches >= 2

\* C34: every chunk of an assembled index belongs to a batch below the
\* persisted completed_batches and was produced by the attempt of the batch
\* that was counted, and the index holds no more embeddings than those
\* attempts produced chunks: files of a batch left by a crash or by an earlier
\* attempt of a batch later counted with zero chunks contribute nothing.
C34_IndexOnlyFromCountedBatches ==
    progress_file.st = "ok" =>
        \A i \in Inst :
            /\ \A p \in 1..Len(rag[i].chunks) :
                  /\ rag[i].chunks[p].batch
                        < progress_file.data.completed_batches
                  /\ \E x \in 1..Len(hist.produced[rag[i].chunks[p].batch]) :
                        hist.produced[rag[i].chunks[p].batch][x]
                           = rag[i].chunks[p]
            /\ Len(rag[i].embeddings)
                  <= ProducedUpTo(progress_file.data.completed_batches)

\* The number of chunks in the chunk files of the batches below c.
StoredChunks(c) == Len(AllChunks(0, c))

\* The two totals of a progress record agree with each other and with the
\* chunk files of the batches it counts.
TotalsMatchFiles(bp) ==
    /\ bp.total_embeddings_created = bp.total_chunks_processed
    /\ bp.total_chunks_processed = StoredChunks(bp.completed_batches)

\* C35: in every persisted progress record, and in memory after every
\* completed batch, total_embeddings_created equals total_chunks_processed
\* and both equal the number of chunks in the chunk files of the batches
\* 0..completed_batches-1.
C35_TotalsEqualStoredChunks ==
    /\ progress_file.st = "ok" => TotalsMatchFiles(progress_file.data)
    /\ \A t \in Threads :
          (th[t].pc \in {"save_open", "save_dump"} /\ th[t].ret = "next")
          => TotalsMatchFiles(Me(t).batch_progress)

\* C36: a status poll taken while a build runs that reports complete reports
\* as chunks_processed and embeddings_created the number of chunks of all
\* completed batches, and is_ready() is then true if that number is positive.
C36_CompleteMeansAssembled ==
    [][(/\ ReadStep
        /\ reply'.op = "status"
        /\ reply'.status = "complete"
        /\ \E t \in Threads : th[t].pc # "idle")
       => LET n == StoredChunks(
                      rag'[rag_system'].batch_progress.completed_batches)
          IN  /\ reply'.chunks_processed = n
              /\ reply'.embeddings_created = n
              /\ n > 0 => is_ready(GetRagSystem)]_vars

\* C37: when the progress file shows an unfinished build after an
\* interruption and no build is running, POST /build_brain starts a build
\* (which resumes at completed_batches).
C37_BuildTriggerResumes ==
    (/\ progress_file.st = "ok"
     /\ progress_file.data.completed_batches > 0
     /\ progress_file.data.completed_batches
           < progress_file.data.total_batches
     /\ hist.kills >= 1
     /\ \A t \in Threads : th[t].pc = "idle")
    => build_brain_starts

\* C38: _rag_building is true whenever a thread is executing load_corpus for
\* the host, and once every build thread has finished it is false and
\* _rag_build_error holds a message if the last build met a failure.
C38_FlagTracksBuild ==
    /\ \A t \in Threads : InLoadCorpus(t) => rag_building
    /\ (\A t \in Threads : th[t].pc = "idle")
       => /\ ~rag_building
          /\ hist.failure => rag_build_error

\* ---------------------------------------------------------------------
\* The non-batched store of rag_system.py (class SimpleRAG): chunks.json and
\* embeddings.pkl, written one after the other by save_data.  The state of
\* the store is held in call: the position of the process, its two lists,
\* the two files, and how the process was killed so far.
\* ---------------------------------------------------------------------

\* The corpus files: each line yields 0..MaxChunksPerLine chunks (0 for a
\* line whose text has at most 50 characters).
StoreFiles == UNION { [1..m -> 0..MaxChunksPerLine] : m \in 0..MaxStoreLines }

\* load_and_chunk_jsonl_gz: the chunks of the lines in order, ids running
\* through the file, source naming the line (created_at is left out).
RECURSIVE load_and_chunk_jsonl_gz(_, _, _)
load_and_chunk_jsonl_gz(f, line_count, all_chunks) ==
    IF line_count = Len(f) THEN all_chunks
    ELSE load_and_chunk_jsonl_gz(f, line_count + 1,
             all_chunks \o [k \in 1..f[line_count + 1] |->
                              [id |-> Len(all_chunks) + k - 1,
                               text |-> <<line_count + 1, k>>,
                               source |-> line_count + 1]])

StoreDown ==
    [fn |-> "store", pc |-> "down", chunks |-> <<>>, embeddings |-> <<>>,
     chunks_file |-> AbsentFile, embeddings_file |-> AbsentFile,
     crash |-> "none", kills |-> 0, fails |-> 0]

StoreRest == UNCHANGED <<fixed, env, reply, disk, host, rag_system, rag, th, faults, hist>>

\* SimpleRAG(): the constructor ends with load_existing_data, which reads
\* both files when both exist; json.load or pickle.load of a file that was
\* opened for writing and not completed raises, and the constructor with it.
SimpleRAG ==
    /\ call.pc \in {"down", "failed"}
    /\ api_key
    /\ IF call.chunks_file.st # "absent" /\ call.embeddings_file.st # "absent"
       THEN IF call.chunks_file.st = "ok" /\ call.embeddings_file.st = "ok"
            THEN call' = [call EXCEPT !.pc = "constructed",
                                      !.chunks = call.chunks_file.data,
                                      !.embeddings = call.embeddings_file.data]
            ELSE call' = [call EXCEPT !.pc = "failed"]
       ELSE call' = [call EXCEPT !.pc = "constructed", !.chunks = <<>>,
                                 !.embeddings = <<>>]
    /\ StoreRest

\* setup_rag_system: an index was loaded, nothing is built.
SetupExisting ==
    /\ call.pc = "constructed"
    /\ call.chunks # <<>>
    /\ call' = [call EXCEPT !.pc = "ready"]
    /\ StoreRest

\* setup_rag_system, no chunks loaded: build_index reads and chunks the
\* corpus file and empties self.embeddings.
BuildIndexChunks ==
    /\ call.pc = "constructed"
    /\ call.chunks = <<>>
    /\ \E f \in StoreFiles :
          call' = [call EXCEPT !.pc = "embed",
                               !.chunks = load_and_chunk_jsonl_gz(f, 0, <<>>),
                               !.embeddings = <<>>]
    /\ StoreRest

\* build_index, one turn of the loop: the embedding of the next chunk, the
\* zero vector when the call fails.
BuildIndexEmbed ==
    /\ call.pc = "embed"
    /\ Len(call.embeddings) < Len(call.chunks)
    /\ \E ok \in BOOLEAN :
          /\ ~ok => call.fails < MaxFaults
          /\ call' = [call EXCEPT
                        !.embeddings = Append(@,
                            IF ok THEN Embed(call.chunks[Len(call.embeddings) + 1].text)
                            ELSE ZeroVector),
                        !.fails = IF ok THEN @ ELSE @ + 1]
    /\ StoreRest

\* save_data: open(chunks_file, 'w') truncates the file.
SaveDataOpenChunks ==
    /\ call.pc = "embed"
    /\ Len(call.embeddings) = Len(call.chunks)
    /\ call' = [call EXCEPT !.pc = "chunks_dump",
                            !.chunks_file = PartialFile]
    /\ StoreRest

\* save_data: json.dump(self.chunks) and the close of the file.
SaveDataDumpChunks ==
    /\ call.pc = "chunks_dump"
    /\ call' = [call EXCEPT !.pc = "emb_open",
                            !.chunks_file = OkFile(call.chunks)]
    /\ StoreRest

\* save_data: open(embeddings_file, 'wb') truncates the file.
SaveDataOpenEmbeddings ==
    /\ call.pc = "emb_open"
    /\ call' = [call EXCEPT !.pc = "emb_dump",
                            !.embeddings_file = PartialFile]
    /\ StoreRest

\* save_data: pickle.dump(self.embeddings) and the close of the file.
SaveDataDumpEmbeddings ==
    /\ call.pc = "emb_dump"
    /\ call' = [call EXCEPT !.pc = "ready",
                            !.embeddings_file = OkFile(call.embeddings)]
    /\ StoreRest

\* The process ends: it returns from the script, or it is killed.  crash
\* records whether every kill inside save_data fell between the two writes.
StoreStop ==
    /\ call.pc \notin {"down", "failed"}
    /\ call.pc # "ready" => call.kills < MaxFaults
    /\ call' = [call EXCEPT
                  !.pc = "down", !.chunks = <<>>, !.embeddings = <<>>,
                  !.kills = IF call.pc = "ready" THEN @ ELSE @ + 1,
                  !.crash = IF call.pc \in {"chunks_dump", "emb_dump"} THEN "other"
                            ELSE IF call.pc = "emb_open" /\ @ = "none" THEN "between"
                            ELSE @]
    /\ StoreRest

InitStore ==
    /\ call = StoreDown
    /\ AtRest

NextStore ==
    \/ SimpleRAG \/ SetupExisting \/ BuildIndexChunks \/ BuildIndexEmbed
    \/ SaveDataOpenChunks \/ SaveDataDumpChunks
    \/ SaveDataOpenEmbeddings \/ SaveDataDumpEmbeddings
    \/ StoreStop

SpecStore == InitStore /\ [][NextStore]_vars

\* Position p of the embedding list was made for position p of the chunk list.
Paired(chunks, embeddings) ==
    /\ Len(chunks) = Len(embeddings)
    /\ \A p \in 1..Len(chunks) :
          embeddings[p] \in {Embed(chunks[p].text), ZeroVector}

\* C39: in the non-batched store, when no kill fell anywhere but between the
\* two writes of save_data, the lists load_existing_data yields have equal
\* length and position p of one belongs to position p of the other.
C39_StoreLoadsPairedLists ==
    (call.fn = "store" /\ call.pc = "constructed" /\ call.crash \in {"none", "between"})
    => Paired(call.chunks, call.embeddings)

====
